---- MODULE Spec2Model ----
(***************************************************************************)
(* cppreg: memory-mapped register and field access.                        *)
(*                                                                         *)
(* An unsigned integer of n bits is modelled as the set of the positions   *)
(* of its 1 bits, a subset of 0..n-1 (bit 0 is the least significant), so  *)
(* that the 32-bit and 64-bit representations are modelled with their full *)
(* width.  &, |, ^ and ~ are the set operations, << and >> move the        *)
(* positions, static_cast<T> keeps the positions below n.                  *)
(***************************************************************************)
EXTENDS Integers, Sequences, FiniteSets, TLC

VARIABLES decl, mem, shadow_value, mw, last, rd, wlog, nops, mk, ctx

vars == <<decl, mem, shadow_value, mw, last, rd, wlog, nops, mk, ctx>>

\* Number of state-changing operations in one run.
MaxOps == 2

\* Number of with() calls in one merge-write chain.
MaxChain == 2

\* A committed merge write is used again at most MaxReuse times.
MaxReuse == 1

----------------------------------------------------------------------------
\* Unsigned integers as sets of bit positions.

\* TypeTraits<RegBitSize>::bit_size for b8, b16, b32, b64.
RegBitSizes == {8, 16, 32, 64}

Word(n) == 0 .. (n - 1)

\* type_mask<T>::value = std::numeric_limits<T>::max().
type_mask(n) == Word(n)

BitAnd(a, b) == {i \in a : i \in b}

BitOr(a, b) == {i \in a \cup b : TRUE}

BitXor(a, b) == {i \in a \cup b : ~(i \in a /\ i \in b)}

\* static_cast<T>(~a)
BitNot(a, n) == {i \in Word(n) : i \notin a}

\* static_cast<T>(a << k), for a shift count below the width of the promoted
\* type (the promoted type is never narrower than T, so no bit below n is
\* lost before the cast).
Shl(a, k, n) == {i + k : i \in {j \in a : j + k < n}}

\* a >> k
Shr(a, k) == {i - k : i \in {j \in a : j >= k}}

\* Width of the type the shift a << k is computed in: uint8_t and uint16_t
\* are promoted to int, uint32_t and uint64_t are not promoted.
PromotedBits(n) == IF n \in {8, 16} THEN 32 ELSE n

RECURSIVE ToBitsFrom(_, _)
ToBitsFrom(k, pos) ==
    IF k = 0 THEN {}
    ELSE (IF k % 2 = 1 THEN {pos} ELSE {}) \cup ToBitsFrom(k \div 2, pos + 1)

\* The bits of a small natural number.
ToBits(k) == ToBitsFrom(k, 0)

MaxBit(a) == CHOOSE i \in a : \A j \in a : j <= i

\* a <= b on unsigned integers.
LessEq(a, b) == a = b \/ (BitXor(a, b) # {} /\ MaxBit(BitXor(a, b)) \in b)

----------------------------------------------------------------------------
\* Mask.h

\* make_mask is recursive on width; one call level of it is one step here:
\* make_mask(0) returns 0, and make_mask(width) returns
\* static_cast<Mask>(static_cast<Mask>(make_mask(width - 1) << 1U) | 1U).
make_mask_base == {}

\* (first a variant that does not shift the narrower mask)
make_mask_step_no_shift(n, narrower) == BitOr(narrower, {0})

make_mask_step(n, narrower) == BitOr(Shl(narrower, 1, n), {0})

\* The shift make_mask(width) << offset is defined: its count is below the
\* width of the promoted type.
shift_defined(n, offset) == offset < PromotedBits(n)

\* The values an undefined shift leaves in a Mask when it is evaluated at
\* run time: the shift instruction takes the count modulo the width of the
\* promoted type, or the build folds the shift to 0.
UndefinedShift(n, mask, offset) ==
    {Shl(mask, offset % PromotedBits(n), n), {}}

\* make_shifted_mask, from the value of make_mask(width): the values it can
\* return.
make_shifted_mask(n, mask, offset) ==
    IF shift_defined(n, offset) THEN {Shl(mask, offset, n)}
    ELSE UndefinedShift(n, mask, offset)

\* make_shifted_mask in a constant expression, as in Field::mask: whether
\* the build accepts it.  A shift count not below the width of the promoted
\* type is rejected.  An 8- or 16-bit mask is promoted to int: when the
\* shifted value has a bit beyond the width of int, the shift is rejected
\* before C++20 and accepted from C++20 on.
make_shifted_mask_constant_accepted(n, mask, offset) ==
    LET overflows == /\ PromotedBits(n) > n
                     /\ mask # {}
                     /\ MaxBit(mask) + offset >= PromotedBits(n)
    IN  IF ~shift_defined(n, offset) THEN {FALSE}
        ELSE IF overflows THEN {FALSE, TRUE}
        ELSE {TRUE}

----------------------------------------------------------------------------
\* Internals.h

\* check_overflow, after a variant that rejects the limit itself.
check_overflow_strict(value, limit) == value # limit /\ LessEq(value, limit)

check_overflow(value, limit) == LessEq(value, limit)

----------------------------------------------------------------------------
\* AccessPolicy.h

\* is_trivial_rw, after a variant that is never true.
is_trivial_rw_never(n, mask, offset) == FALSE

is_trivial_rw(n, mask, offset) == mask = type_mask(n) /\ offset = 0

\* RegisterRead::read, the overload enabled by is_not_trivial; first a
\* variant that leaves the field at its offset.
RegisterRead_read_not_trivial_unshifted(n, raw, mask, offset) ==
    BitAnd(raw, mask)

RegisterRead_read_not_trivial(n, raw, mask, offset) ==
    LET lhs == BitAnd(raw, mask)
    IN  Shr(lhs, offset)

\* RegisterRead::read, the overload enabled by is_trivial.
RegisterRead_read_trivial(n, raw, mask, offset) == raw

RegisterRead_read(n, raw, mask, offset) ==
    IF is_trivial_rw(n, mask, offset)
    THEN RegisterRead_read_trivial(n, raw, mask, offset)
    ELSE RegisterRead_read_not_trivial(n, raw, mask, offset)

\* RegisterWrite::write, the overload enabled by is_not_trivial: the new
\* content of mmio_device; first a variant that does not mask the shifted
\* value.
RegisterWrite_write_not_trivial_unmasked(n, raw, mask, offset, value) ==
    LET shifted_value == Shl(value, offset, n)
        lhs == BitAnd(raw, BitNot(mask, n))
    IN  BitOr(lhs, shifted_value)

RegisterWrite_write_not_trivial(n, raw, mask, offset, value) ==
    LET shifted_value == Shl(value, offset, n)
        lhs == BitAnd(raw, BitNot(mask, n))
        rhs == BitAnd(shifted_value, mask)
    IN  BitOr(lhs, rhs)

\* RegisterWrite::write, the overload enabled by is_trivial; first a variant
\* that keeps the bits already set.
RegisterWrite_write_trivial_or(n, raw, mask, offset, value) == BitOr(raw, value)

RegisterWrite_write_trivial(n, raw, mask, offset, value) == value

RegisterWrite_write(n, raw, mask, offset, value) ==
    IF is_trivial_rw(n, mask, offset)
    THEN RegisterWrite_write_trivial(n, raw, mask, offset, value)
    ELSE RegisterWrite_write_not_trivial(n, raw, mask, offset, value)

\* RegisterWriteConstant::write, the overload enabled by is_not_trivial.
RegisterWriteConstant_write_not_trivial(n, raw, mask, offset, value) ==
    LET shifted_value == Shl(value, offset, n)
        lhs == BitAnd(raw, BitNot(mask, n))
        rhs == BitAnd(shifted_value, mask)
    IN  BitOr(lhs, rhs)

\* RegisterWriteConstant::write, the overload enabled by is_trivial.
RegisterWriteConstant_write_trivial(n, raw, mask, offset, value) == value

RegisterWriteConstant_write(n, raw, mask, offset, value) ==
    IF is_trivial_rw(n, mask, offset)
    THEN RegisterWriteConstant_write_trivial(n, raw, mask, offset, value)
    ELSE RegisterWriteConstant_write_not_trivial(n, raw, mask, offset, value)

\* Loads of mmio_device made by RegisterWrite::write and
\* RegisterWriteConstant::write (each makes one store).
RegisterWrite_loads(n, mask, offset) ==
    IF is_trivial_rw(n, mask, offset) THEN 0 ELSE 1

\* The access policies: the operations each one defines.
Policies == {"read_only", "read_write", "write_only"}

HasRead(policy) == policy \in {"read_only", "read_write"}

\* (first a variant in which read_only has a write member)
HasWrite_any(policy) == policy \in Policies

HasWrite(policy) == policy \in {"read_write", "write_only"}

HasSetClearToggle(policy) == policy = "read_write"

read_only_read(n, raw, mask, offset) == RegisterRead_read(n, raw, mask, offset)

read_write_write(n, raw, mask, offset, value) ==
    RegisterWrite_write(n, raw, mask, offset, value)

read_write_write_constant(n, raw, mask, offset, value) ==
    RegisterWriteConstant_write(n, raw, mask, offset, value)

\* read_write::set, read_write::clear and read_write::toggle; first a variant
\* of set that stores the mask without loading the register.
read_write_set_store(n, raw, mask) == mask

read_write_set(n, raw, mask) ==
    RegisterWriteConstant_write(n, raw, mask, 0, mask)

read_write_clear(n, raw, mask) ==
    RegisterWriteConstant_write(n, raw, mask, 0, BitNot(mask, n))

read_write_toggle(n, raw, mask) == BitXor(raw, mask)

\* write_only::write; first a variant that writes the field the way
\* read_write does.
write_only_write_field(n, raw, mask, offset, value) ==
    RegisterWrite_write(n, raw, mask, offset, value)

write_only_write(n, raw, mask, offset, value) ==
    RegisterWrite_write(n, raw, type_mask(n), 0,
                        BitAnd(Shl(value, offset, n), mask))

write_only_write_constant(n, raw, mask, offset, value) ==
    RegisterWriteConstant_write(n, raw, type_mask(n), 0,
                                BitAnd(Shl(value, offset, n), mask))

\* policy::write<MMIO, T, mask, offset>(mmio_device, value)
policy_write(policy, n, raw, mask, offset, value) ==
    IF policy = "read_write"
    THEN read_write_write(n, raw, mask, offset, value)
    ELSE write_only_write(n, raw, mask, offset, value)

\* policy::write<MMIO, T, mask, offset, value>(mmio_device)
policy_write_constant(policy, n, raw, mask, offset, value) ==
    IF policy = "read_write"
    THEN read_write_write_constant(n, raw, mask, offset, value)
    ELSE write_only_write_constant(n, raw, mask, offset, value)

\* Loads of mmio_device made by policy::write: write_only always takes the
\* whole-register store.
policy_write_loads(policy, n, mask, offset) ==
    IF policy = "read_write"
    THEN RegisterWrite_loads(n, mask, offset)
    ELSE RegisterWrite_loads(n, type_mask(n), 0)

----------------------------------------------------------------------------
\* Register.h, ShadowValue.h, Field.h

\* Field<BaseRegister, field_width, field_offset, AccessPolicy> with its mask.
\* The mask is computed when the field is instantiated.
FieldType(width, offset, policy) ==
    [width |-> width, offset |-> offset, policy |-> policy, mask |-> {}]

\* The bits of the register a field covers.
FieldBitsOf(f) == f.offset .. (f.offset + f.width - 1)

\* (first a variant without the assertion on width + offset)
FieldAccepted_width_only(n, width, offset) ==
    /\ n >= width
    /\ width # 0

\* The static assertions of Field.
FieldAccepted(n, width, offset) ==
    /\ n >= width
    /\ n >= width + offset
    /\ width # 0

\* Field::read
Field_read(n, f, raw) == read_only_read(n, raw, f.mask, f.offset)

\* Field::is_set; first a variant that is true when any bit is 1.
Field_is_set_any(n, f, raw) == Field_read(n, f, raw) # {}

Field_is_set(n, f, raw) == Field_read(n, f, raw) = Shr(f.mask, f.offset)

\* Field::is_clear
Field_is_clear(n, f, raw) == Field_read(n, f, raw) = {}

\* Field::write(value), register without shadow value: the new register.
Field_write_mem(n, f, raw, value) ==
    policy_write(f.policy, n, raw, f.mask, f.offset, value)

\* Field::write(value), register with shadow value: the new shadow value.
Field_write_shadow(n, f, shadow, value) ==
    RegisterWrite_write(n, shadow, f.mask, f.offset, value)

\* Field::write(value), register with shadow value: the new register, from
\* the updated shadow value; first a variant that stores the bits of the
\* field only.
Field_write_shadow_mem_field(n, f, raw, shadow) ==
    policy_write(f.policy, n, raw, type_mask(n), 0, BitAnd(shadow, f.mask))

Field_write_shadow_mem(n, f, raw, shadow) ==
    policy_write(f.policy, n, raw, type_mask(n), 0, shadow)

\* Field::write<value>(), register without shadow value: the new register.
Field_write_constant_mem(n, f, raw, value) ==
    policy_write_constant(f.policy, n, raw, f.mask, f.offset, value)

\* The static assertion of Field::write<value>().
Field_write_constant_accepted(f, value) ==
    check_overflow(value, Shr(f.mask, f.offset))

\* Field::set, Field::clear, Field::toggle: the new register.
Field_set(n, f, raw) == read_write_set(n, raw, f.mask)

Field_clear(n, f, raw) == read_write_clear(n, raw, f.mask)

Field_toggle(n, f, raw) == read_write_toggle(n, raw, f.mask)

----------------------------------------------------------------------------
\* MergeWrite.h and Register::merge_write
\*
\* A merge-write object is modelled by its template arguments and its data
\* member: mask is the template argument mask (_combined_mask); for
\* MergeWrite value is _accumulated_value and offset is 0; for
\* MergeWrite_tmpl offset and value are the template arguments.

\* The static assertion of MergeWrite and of MergeWrite_tmpl on the shadow
\* value of the register; first a variant without it.
MergeWrite_shadow_accepted_any(use_shadow) == TRUE

MergeWrite_shadow_accepted(use_shadow) == ~use_shadow

\* The static assertion of MergeWrite::with and of MergeWrite_tmpl::with on
\* the parent register of F; first a variant without it.
MergeWrite_with_accepted_any(parent_register, Register) == TRUE

MergeWrite_with_accepted(parent_register, Register) ==
    parent_register = Register

\* MergeWrite_tmpl::_accumulated_value
MergeWrite_tmpl_accumulated_value(n, mask, offset, value) ==
    BitAnd(Shl(value, offset, n), mask)

\* _accumulated_value of either class.
accumulated_value(n, m) ==
    IF m.kind = "MergeWrite_tmpl"
    THEN MergeWrite_tmpl_accumulated_value(n, m.mask, m.offset, m.value)
    ELSE m.value

\* Register::merge_write<F>(value): the argument of MergeWrite::create.
Register_merge_write(n, f, value) ==
    LET lhs == Shl(value, f.offset, n)
    IN  BitAnd(lhs, f.mask)

\* The static assertion of Register::merge_write<F, value>() and of
\* MergeWrite_tmpl::with<F, field_value>().
merge_write_constant_accepted(f, value) ==
    check_overflow(value, Shr(f.mask, f.offset))

\* MergeWrite::with<F>(value): the argument of propagated<F>::create; first
\* a variant that keeps the bits accumulated for F.
MergeWrite_with_or(n, acc, f, value) ==
    BitOr(acc, BitAnd(Shl(value, f.offset, n), f.mask))

MergeWrite_with(n, acc, f, value) ==
    LET neg_mask == BitNot(f.mask, n)
        shifted_value == Shl(value, f.offset, n)
        lhs == BitAnd(acc, neg_mask)
        rhs == BitAnd(shifted_value, f.mask)
    IN  BitOr(lhs, rhs)

\* MergeWrite_tmpl::propagated<F, new_value>: the template argument value;
\* first a variant that keeps the bits accumulated for F.
MergeWrite_tmpl_propagated_or(n, acc, f, new_value) ==
    BitOr(acc, BitAnd(Shl(new_value, f.offset, n), f.mask))

MergeWrite_tmpl_propagated(n, acc, f, new_value) ==
    BitOr(BitAnd(acc, BitNot(f.mask, n)),
          BitAnd(Shl(new_value, f.offset, n), f.mask))

\* MergeWrite_tmpl::with<F, field_value>() returns propagated<F, field_value>{}:
\* whether the build accepts it.  The default constructor is private; before
\* C++20 the braces initialise an aggregate without it, from C++20 on they
\* need it, and it is accessible only when propagated<F, field_value> is the
\* class of the merge write itself (same mask, offset and value arguments).
MergeWrite_tmpl_with_builds(n, m, f, field_value) ==
    LET propagated ==
            [mask |-> BitOr(m.mask, f.mask), offset |-> 0,
             value |-> MergeWrite_tmpl_propagated(
                           n, accumulated_value(n, m), f, field_value)]
        self == [mask |-> m.mask, offset |-> m.offset, value |-> m.value]
    IN  IF propagated = self THEN {TRUE} ELSE {FALSE, TRUE}

\* ~MergeWrite and ~MergeWrite_tmpl, both defaulted: the new register; first a
\* variant that commits the accumulated value.
MergeWrite_destructor_commit(n, raw, mask, acc) ==
    RegisterWrite_write(n, raw, mask, 0, acc)

MergeWrite_destructor(n, raw, mask, acc) == raw

\* MergeWrite::done: the new register; first a variant that stores the
\* accumulated value without loading the register.
MergeWrite_done_store(n, raw, mask, acc) == acc

MergeWrite_done(n, raw, mask, acc) ==
    RegisterWrite_write(n, raw, mask, 0, acc)

\* MergeWrite_tmpl::done: the new register.
MergeWrite_tmpl_done(n, raw, mask, acc) ==
    RegisterWriteConstant_write(n, raw, mask, 0, acc)

----------------------------------------------------------------------------
\* The registers, fields and values the runs are drawn from.

\* Register contents: a pattern and its complement, so that every bit is 0 in
\* one of them and 1 in the other.
Pattern(n) == {i \in Word(n) : i % 3 = 1}

MemSamples(n) == {Pattern(n), BitNot(Pattern(n), n)}

\* Reset value of a register.
ResetSample(n) == BitNot(Pattern(n), n)

\* <<width, offset>> of the fields A and B declared on a register of n bits:
\* two adjacent nibbles; the whole register and its top bit; a 3-bit field
\* inside a field that leaves out bit 0; bit 0 and the upper half.
Geometries(n) ==
    { << <<4, 0>>, <<4, 4>> >>,
      << <<n, 0>>, <<1, n - 1>> >>,
      << <<3, 1>>, <<n - 1, 1>> >>,
      << <<1, 0>>, <<n \div 2, n \div 2>> >> }

\* Access policies of the fields A and B.
PolicyPairs ==
    { <<"read_write", "read_write">>,
      <<"write_only", "write_only">>,
      <<"read_only", "read_write">> }

Layouts(n) ==
    { [name \in {"A", "B"} |->
          IF name = "A"
          THEN FieldType(g[1][1], g[1][2], pp[1])
          ELSE FieldType(g[2][1], g[2][2], pp[2])]
      : g \in Geometries(n), pp \in PolicyPairs }

\* Register<reg_address, reg_size, reset_value, use_shadow> with its fields.
Declarations ==
    UNION { { [size |-> n, use_shadow |-> sh, reset |-> ResetSample(n),
               fields |-> l]
              : sh \in BOOLEAN, l \in Layouts(n) }
            : n \in RegBitSizes }

\* Values of the field's type passed to write(value): 0, 3, 5, the largest
\* value of the field and the smallest value that does not fit (2^width,
\* which is 0 again once cast to T when the field is the whole register).
ValueSamples(n, f) ==
    {ToBits(0), ToBits(3), ToBits(5), Shr(f.mask, f.offset),
     {f.width} \cap Word(n)}

\* Values passed as template arguments, and to merge writes.
ConstantSamples(n, f) == ValueSamples(n, f) \ {ToBits(0)}

----------------------------------------------------------------------------
\* State

NoField == [width |-> 0, offset |-> 0, policy |-> "none", mask |-> {}]

NoOp ==
    [op |-> "none", call |-> "none", f |-> "-", value |-> {}, pre_mem |-> {},
     pre_shadow |-> {}, rejected |-> FALSE, loads |-> 0, stores |-> 0]

NoRead == [op |-> "none", f |-> "-", ret |-> {}, is_set |-> FALSE,
           is_clear |-> FALSE]

NoMergeWrite ==
    [st |-> "none", kind |-> "none", made |-> "-", on |-> "-", reg |-> "-",
     regs |-> {}, mask |-> {},
     offset |-> 0, value |-> {}, chain |-> <<>>, pre_mem |-> {}, stores |-> 0,
     loads |-> 0, reused |-> 0]

\* The contexts that access the register (the main context and an interrupt
\* handler, or two threads), and what each is doing: none of them has
\* started an access.
Contexts == {"c1", "c2"}

NoContext ==
    [pc |-> "idle", kind |-> "none", f |-> "-", value |-> {}, tmp |-> {}]

NoContexts == [c \in Contexts |-> NoContext]

\* The register the runs operate on, and another register of the same
\* declaration at another address: the fields of S have the widths, offsets
\* and policies of the fields of R, and are other types.
Registers == {"R", "S"}

\* The instantiation of the fields' masks: make_mask has returned for the
\* widths up to level, with the value mask, for the field f.
FirstMask == [st |-> "make_mask", f |-> "A", level |-> 0, mask |-> make_mask_base]

FieldNames == DOMAIN decl.fields

Init ==
    /\ decl \in Declarations
    /\ mem \in MemSamples(decl.size)
    /\ shadow_value = decl.reset
    /\ mw = NoMergeWrite
    /\ last = NoOp
    /\ rd = NoRead
    /\ wlog = <<>>
    /\ nops = 0
    /\ mk = FirstMask
    /\ ctx = NoContexts

\* make_mask(width) for the next width, from the value for width - 1.
MakeMaskStep ==
    /\ mk.st = "make_mask"
    /\ mk.level < decl.fields[mk.f].width
    /\ mk' = [mk EXCEPT !.level = @ + 1,
                        !.mask = make_mask_step(decl.size, @)]
    /\ UNCHANGED <<decl, mem, shadow_value, mw, last, rd, wlog, nops, ctx>>

\* make_shifted_mask(width, offset) returns Field::mask; the mask of the
\* next field is instantiated after it.
MakeShiftedMask ==
    /\ mk.st = "make_mask"
    /\ mk.level = decl.fields[mk.f].width
    /\ \/ /\ \E m \in make_shifted_mask(decl.size, mk.mask,
                                         decl.fields[mk.f].offset) :
                  decl' = [decl EXCEPT !.fields[mk.f].mask = m]
          /\ mk' = IF mk.f = "A" /\ "B" \in FieldNames
                   THEN [FirstMask EXCEPT !.f = "B"]
                   ELSE [mk EXCEPT !.st = "done"]
       \/ /\ FALSE \in make_shifted_mask_constant_accepted(
                            decl.size, mk.mask, decl.fields[mk.f].offset)
          /\ decl' = decl
          /\ mk' = [mk EXCEPT !.st = "rejected"]
    /\ UNCHANGED <<mem, shadow_value, mw, last, rd, wlog, nops, ctx>>

\* The fields are instantiated.
Declared == mk.st = "done"

\* A run is a sequence of field operations or the building of one merge
\* write.
CanOperate == Declared /\ nops < MaxOps /\ mw.st = "none"

CanRead == Declared /\ mw.st = "none"

CanMerge == Declared /\ nops = 0 /\ mw.st = "none"

Done(op, fname, value, rejected, loads, stores) ==
    [op |-> op, call |-> op, f |-> fname, value |-> value, pre_mem |-> mem,
     pre_shadow |-> shadow_value, rejected |-> rejected,
     loads |-> loads, stores |-> stores]

\* Field::write(value)
FieldWrite(fname, value) ==
    LET n == decl.size
        f == decl.fields[fname]
    IN  /\ CanOperate
        /\ HasWrite(f.policy)
        /\ IF decl.use_shadow
           THEN /\ shadow_value' = Field_write_shadow(n, f, shadow_value, value)
                /\ mem' = Field_write_shadow_mem(n, f, mem, shadow_value')
                /\ last' = Done("write", fname, value, FALSE,
                                policy_write_loads(f.policy, n, type_mask(n), 0), 1)
           ELSE /\ shadow_value' = shadow_value
                /\ mem' = Field_write_mem(n, f, mem, value)
                /\ last' = Done("write", fname, value, FALSE,
                                policy_write_loads(f.policy, n, f.mask, f.offset), 1)
        /\ wlog' = Append(wlog, [f |-> fname, value |-> value])
        /\ rd' = NoRead
        /\ nops' = nops + 1
        /\ UNCHANGED <<decl, mw, mk, ctx>>

\* Field::write<value>()
FieldWriteConstant(fname, value) ==
    LET n == decl.size
        f == decl.fields[fname]
    IN  /\ CanOperate
        /\ HasWrite(f.policy)
        /\ IF ~Field_write_constant_accepted(f, value)
           THEN /\ last' = Done("write_constant", fname, value, TRUE, 0, 0)
                /\ UNCHANGED <<mem, shadow_value, wlog>>
           ELSE /\ IF decl.use_shadow
                   THEN /\ shadow_value' =
                              Field_write_shadow(n, f, shadow_value, value)
                        /\ mem' = Field_write_shadow_mem(n, f, mem, shadow_value')
                        /\ last' = Done("write_constant", fname, value, FALSE,
                                        policy_write_loads(f.policy, n,
                                                           type_mask(n), 0), 1)
                   ELSE /\ shadow_value' = shadow_value
                        /\ mem' = Field_write_constant_mem(n, f, mem, value)
                        /\ last' = Done("write_constant", fname, value, FALSE,
                                        policy_write_loads(f.policy, n,
                                                           f.mask, f.offset), 1)
                /\ wlog' = Append(wlog, [f |-> fname, value |-> value])
        /\ rd' = NoRead
        /\ nops' = nops + 1
        /\ UNCHANGED <<decl, mw, mk, ctx>>

\* Field::set
FieldSet(fname) ==
    LET n == decl.size
        f == decl.fields[fname]
    IN  /\ CanOperate
        /\ HasSetClearToggle(f.policy)
        /\ mem' = Field_set(n, f, mem)
        /\ last' = Done("set", fname, {}, FALSE,
                        RegisterWrite_loads(n, f.mask, 0), 1)
        /\ rd' = NoRead
        /\ nops' = nops + 1
        /\ UNCHANGED <<decl, shadow_value, mw, wlog, mk, ctx>>

\* Field::clear
FieldClear(fname) ==
    LET n == decl.size
        f == decl.fields[fname]
    IN  /\ CanOperate
        /\ HasSetClearToggle(f.policy)
        /\ mem' = Field_clear(n, f, mem)
        /\ last' = Done("clear", fname, {}, FALSE,
                        RegisterWrite_loads(n, f.mask, 0), 1)
        /\ rd' = NoRead
        /\ nops' = nops + 1
        /\ UNCHANGED <<decl, shadow_value, mw, wlog, mk, ctx>>

\* Field::toggle
FieldToggle(fname) ==
    LET n == decl.size
        f == decl.fields[fname]
    IN  /\ CanOperate
        /\ HasSetClearToggle(f.policy)
        /\ mem' = Field_toggle(n, f, mem)
        /\ last' = Done("toggle", fname, {}, FALSE, 1, 1)
        /\ rd' = NoRead
        /\ nops' = nops + 1
        /\ UNCHANGED <<decl, shadow_value, mw, wlog, mk, ctx>>

\* Field::read, Field::is_set and Field::is_clear, called one after the
\* other on the same field.
FieldObserve(fname) ==
    LET f == decl.fields[fname]
    IN  /\ CanRead
        /\ HasRead(f.policy)
        /\ rd' = [op |-> "read", f |-> fname,
                  ret |-> Field_read(decl.size, f, mem),
                  is_set |-> Field_is_set(decl.size, f, mem),
                  is_clear |-> Field_is_clear(decl.size, f, mem)]
        /\ UNCHANGED <<decl, mem, shadow_value, mw, last, wlog, nops, mk, ctx>>

\* The members of Field that call a member of the access policy.
FieldCalls ==
    {"read", "is_set", "is_clear", "write", "write_constant", "set", "clear",
     "toggle"}

\* The access policy has the member that the member call of Field calls.
PolicyHasMember(policy, call) ==
    IF call \in {"read", "is_set", "is_clear"} THEN HasRead(policy)
    ELSE IF call \in {"write", "write_constant"} THEN HasWrite(policy)
    ELSE HasSetClearToggle(policy)

\* A call of a member of Field whose access policy has no such member: the
\* call does not build, and nothing runs.
FieldNoMember(fname, call) ==
    /\ CanOperate
    /\ ~PolicyHasMember(decl.fields[fname].policy, call)
    /\ last' = [Done("no_member", fname, {}, TRUE, 0, 0) EXCEPT !.call = call]
    /\ rd' = NoRead
    /\ UNCHANGED <<decl, mem, shadow_value, mw, wlog, nops, mk, ctx>>

FieldOps ==
    \E fname \in FieldNames :
        \/ \E value \in ValueSamples(decl.size, decl.fields[fname]) :
               FieldWrite(fname, value)
        \/ \E value \in ConstantSamples(decl.size, decl.fields[fname]) :
               FieldWriteConstant(fname, value)
        \/ FieldSet(fname)
        \/ FieldClear(fname)
        \/ FieldToggle(fname)
        \/ FieldObserve(fname)

\* Register::merge_write<F>(value) for kind "MergeWrite", and
\* Register::merge_write<F, value>() for kind "MergeWrite_tmpl", called on
\* the register on with a field F of R: the merge write returned is one of
\* F::parent_register.
MergeStartOn(on, fname, value, kind) ==
    LET n == decl.size
        f == decl.fields[fname]
        op == IF kind = "MergeWrite_tmpl" THEN "merge_write_constant"
              ELSE "merge_write"
    IN  /\ CanMerge
        /\ IF \/ ~MergeWrite_shadow_accepted(decl.use_shadow)
              \/ kind = "MergeWrite_tmpl" /\ ~merge_write_constant_accepted(f, value)
           THEN /\ last' = Done(op, fname, value, TRUE, 0, 0)
                /\ mw' = NoMergeWrite
           ELSE /\ last' = Done(op, fname, value, FALSE, 0, 0)
                /\ mw' = [st |-> "building", kind |-> kind,
                          made |-> "merge_write", on |-> on,
                          reg |-> "R", regs |-> {"R"}, mask |-> f.mask,
                          offset |-> IF kind = "MergeWrite_tmpl"
                                     THEN f.offset ELSE 0,
                          value |-> IF kind = "MergeWrite_tmpl" THEN value
                                    ELSE Register_merge_write(n, f, value),
                          chain |-> << [f |-> fname, value |-> value] >>,
                          pre_mem |-> mem, stores |-> 0, loads |-> 0,
                          reused |-> 0]
        /\ rd' = NoRead
        /\ nops' = nops + 1
        /\ UNCHANGED <<decl, mem, shadow_value, wlog, mk, ctx>>

\* merge_write called on the register R, of which F is a field.
MergeStart(fname, value, kind) == MergeStartOn("R", fname, value, kind)

\* merge_write called on another register, with a field F of R.
MergeStartOther(fname, value, kind) ==
    \E on \in Registers \ {"R"} : MergeStartOn(on, fname, value, kind)

\* MergeWrite<R, mask>::create(value), called directly: the value is kept
\* as it is given.
MergeWriteCreate(mask, value) ==
    /\ CanMerge
    /\ IF ~MergeWrite_shadow_accepted(decl.use_shadow)
       THEN /\ last' = Done("create", "-", value, TRUE, 0, 0)
            /\ mw' = NoMergeWrite
       ELSE /\ last' = Done("create", "-", value, FALSE, 0, 0)
            /\ mw' = [st |-> "building", kind |-> "MergeWrite",
                      made |-> "create", on |-> "R", reg |-> "R",
                      regs |-> {"R"}, mask |-> mask, offset |-> 0,
                      value |-> value, chain |-> <<>>, pre_mem |-> mem,
                      stores |-> 0, loads |-> 0, reused |-> 0]
    /\ rd' = NoRead
    /\ nops' = nops + 1
    /\ UNCHANGED <<decl, mem, shadow_value, wlog, mk, ctx>>

\* MergeWrite_tmpl<R, mask, offset, value>::create(), called directly: no
\* assertion on the value.
MergeWrite_tmplCreate(mask, offset, value) ==
    /\ CanMerge
    /\ IF ~MergeWrite_shadow_accepted(decl.use_shadow)
       THEN /\ last' = Done("create_constant", "-", value, TRUE, 0, 0)
            /\ mw' = NoMergeWrite
       ELSE /\ last' = Done("create_constant", "-", value, FALSE, 0, 0)
            /\ mw' = [st |-> "building", kind |-> "MergeWrite_tmpl",
                      made |-> "create", on |-> "R", reg |-> "R",
                      regs |-> {"R"}, mask |-> mask, offset |-> offset,
                      value |-> value, chain |-> <<>>, pre_mem |-> mem,
                      stores |-> 0, loads |-> 0, reused |-> 0]
    /\ rd' = NoRead
    /\ nops' = nops + 1
    /\ UNCHANGED <<decl, mem, shadow_value, wlog, mk, ctx>>

\* MergeWrite::with<F>(value) and MergeWrite_tmpl::with<F, field_value>(),
\* F the field fname of the register reg.
MergeWithOf(reg, fname, value) ==
    LET n == decl.size
        f == decl.fields[fname]
    IN  /\ mw.st = "building"
        /\ Len(mw.chain) <= MaxChain
        /\ IF ~MergeWrite_with_accepted(reg, mw.reg)
           THEN /\ last' = Done(IF mw.kind = "MergeWrite_tmpl"
                                THEN "with_constant" ELSE "with",
                                fname, value, TRUE, 0, 0)
                /\ mw' = mw
           ELSE IF mw.kind = "MergeWrite_tmpl"
           THEN IF ~merge_write_constant_accepted(f, value)
                THEN /\ last' = Done("with_constant", fname, value, TRUE, 0, 0)
                     /\ mw' = mw
                ELSE \E builds \in MergeWrite_tmpl_with_builds(
                                         n, mw, f, value) :
                     IF ~builds
                     THEN /\ last' = Done("with_constant", fname, value,
                                          TRUE, 0, 0)
                          /\ mw' = mw
                     ELSE /\ last' = Done("with_constant", fname, value,
                                          FALSE, 0, 0)
                          /\ mw' = [mw EXCEPT
                                      !.regs = @ \cup {reg},
                                      !.mask = BitOr(mw.mask, f.mask),
                                      !.offset = 0,
                                      !.value = MergeWrite_tmpl_propagated(
                                                    n, accumulated_value(n, mw),
                                                    f, value),
                                      !.chain = Append(@, [f |-> fname,
                                                           value |-> value])]
           ELSE /\ last' = Done("with", fname, value, FALSE, 0, 0)
                /\ mw' = [mw EXCEPT
                            !.regs = @ \cup {reg},
                            !.mask = BitOr(mw.mask, f.mask),
                            !.value = MergeWrite_with(n, mw.value, f, value),
                            !.chain = Append(@, [f |-> fname, value |-> value])]
        /\ UNCHANGED <<decl, mem, shadow_value, rd, wlog, nops, mk, ctx>>

\* with, F a field of the register of the merge write.
MergeWith(fname, value) == MergeWithOf(mw.reg, fname, value)

\* with, F a field of another register than that of the merge write.
MergeWithOther(fname, value) ==
    \E reg \in Registers \ {mw.reg} : MergeWithOf(reg, fname, value)

\* MergeWrite::done and MergeWrite_tmpl::done
MergeDone ==
    LET n == decl.size
        acc == accumulated_value(n, mw)
    IN  /\ mw.st = "building"
        /\ mem' = IF mw.kind = "MergeWrite_tmpl"
                  THEN MergeWrite_tmpl_done(n, mem, mw.mask, acc)
                  ELSE MergeWrite_done(n, mem, mw.mask, acc)
        /\ last' = Done("done", "-", acc, FALSE,
                        RegisterWrite_loads(n, mw.mask, 0), 1)
        /\ mw' = [mw EXCEPT !.st = "committed",
                            !.loads = @ + RegisterWrite_loads(n, mw.mask, 0),
                            !.stores = @ + 1]
        /\ UNCHANGED <<decl, shadow_value, rd, wlog, nops, mk, ctx>>

\* The merge write goes out of scope without a call of done.
MergeDestroy ==
    /\ mw.st = "building"
    /\ mem' = MergeWrite_destructor(decl.size, mem, mw.mask,
                                    accumulated_value(decl.size, mw))
    /\ last' = Done("destroy", "-", accumulated_value(decl.size, mw), FALSE,
                    0, 0)
    /\ mw' = [mw EXCEPT !.st = "destroyed"]
    /\ UNCHANGED <<decl, shadow_value, rd, wlog, nops, mk, ctx>>

\* std::move on a named merge write on which done was called: done and with
\* are const&& members, they take any rvalue and leave the object as it
\* was, so they can be called on it again.
MergeMoveAgain ==
    /\ mw.st = "committed"
    /\ mw.reused < MaxReuse
    /\ mw' = [mw EXCEPT !.st = "building", !.reused = @ + 1]
    /\ last' = Done("move", "-", accumulated_value(decl.size, mw), FALSE, 0, 0)
    /\ UNCHANGED <<decl, mem, shadow_value, rd, wlog, nops, mk, ctx>>

MergeKinds == {"MergeWrite", "MergeWrite_tmpl"}

MergeOps ==
    \/ \E fname \in FieldNames :
           \E value \in ConstantSamples(decl.size, decl.fields[fname]) :
               \/ \E kind \in MergeKinds : MergeStart(fname, value, kind)
               \/ MergeWith(fname, value)
    \/ MergeDone

Next == MakeMaskStep \/ MakeShiftedMask \/ FieldOps


Spec == Init /\ [][Next]_vars

\* The runs of the operations checked when the program is built: one merge
\* write is built and committed, or constant values are written.
NextMerge ==
    \/ MakeMaskStep
    \/ MakeShiftedMask
    \/ MergeOps
    \/ \E fname \in FieldNames :
           \E value \in ConstantSamples(decl.size, decl.fields[fname]) :
               FieldWriteConstant(fname, value)

SpecMerge == Init /\ [][NextMerge]_vars

\* The runs of field operations, with the calls that do not build.
NextPolicy ==
    \/ MakeMaskStep
    \/ MakeShiftedMask
    \/ FieldOps
    \/ \E fname \in FieldNames : \E call \in FieldCalls :
           FieldNoMember(fname, call)

SpecPolicy == Init /\ [][NextPolicy]_vars

\* The value passed to with for a field of another register.
OtherSamples == {ToBits(5)}

\* The runs of one merge write, with the fields of another register.
NextCross ==
    \/ MakeMaskStep
    \/ MakeShiftedMask
    \/ MergeOps
    \/ \E fname \in FieldNames : \E value \in OtherSamples :
           MergeWithOther(fname, value)

SpecCross == Init /\ [][NextCross]_vars

\* The template arguments and the values of the merge writes made with
\* create: the masks 0xF0, 0x0F and 0x3C, the offsets 0 and 4, the values
\* 0x35 and 0x1F.
CreateMasks == {ToBits(240), ToBits(15), ToBits(60)}

CreateOffsets == {0, 4}

CreateValues == {ToBits(53), ToBits(31)}

\* The runs of one merge write, opened on any register or made with create.
NextOpen ==
    \/ MakeMaskStep
    \/ MakeShiftedMask
    \/ MergeOps
    \/ \E fname \in FieldNames : \E kind \in MergeKinds :
           \E value \in OtherSamples : MergeStartOther(fname, value, kind)
    \/ \E mask \in CreateMasks : \E value \in CreateValues :
           \/ MergeWriteCreate(mask, value)
           \/ \E offset \in CreateOffsets :
                  MergeWrite_tmplCreate(mask, offset, value)

SpecOpen == Init /\ [][NextOpen]_vars

\* The runs of one merge write that is committed, used again after done, or
\* goes out of scope.
NextLife ==
    \/ MakeMaskStep
    \/ MakeShiftedMask
    \/ MergeOps
    \/ MergeDestroy
    \/ MergeMoveAgain

SpecLife == Init /\ [][NextLife]_vars

\* The runs of one named merge write that is used again after done.
NextReuse == MakeMaskStep \/ MakeShiftedMask \/ MergeOps \/ MergeMoveAgain

SpecReuse == Init /\ [][NextReuse]_vars

\* The instantiation of the mask of one field, of any width and offset that
\* fit the register, the width 0 included.
MaskDeclarations ==
    UNION { { [size |-> n, use_shadow |-> FALSE, reset |-> {},
               fields |-> [name \in {"A"} |->
                              FieldType(width, offset, "read_write")]]
              : width \in 0 .. n, offset \in 0 .. n }
            : n \in RegBitSizes }

InitMask ==
    /\ decl \in {d \in MaskDeclarations :
                    d.fields["A"].width + d.fields["A"].offset <= d.size}
    /\ mem = {}
    /\ shadow_value = decl.reset
    /\ mw = NoMergeWrite
    /\ last = NoOp
    /\ rd = NoRead
    /\ wlog = <<>>
    /\ nops = 0
    /\ mk = FirstMask
    /\ ctx = NoContexts

NextMask == MakeMaskStep \/ MakeShiftedMask

SpecMask == InitMask /\ [][NextMask]_vars

----------------------------------------------------------------------------
\* Internals.h is_aligned, Memory.h, Register.h and RegisterPack.h:
\* the declaration of a register, alone or in a pack.

\* Addresses and pack sizes the declarations are drawn from.
MaxAddress == 16

MaxPackBytes == 8

\* TypeTraits<reg_size>::byte_size
byte_size(n) == n \div 8

\* std::alignment_of of the representation: its size, or less for the
\* 64-bit type on an ABI that aligns it on 4 bytes.
alignment_of(n) == IF n = 64 THEN {4, 8} ELSE {byte_size(n)}

\* (first a variant that masks with the alignment itself)
is_aligned_no_decrement(address, alignment) ==
    BitAnd(ToBits(address), ToBits(alignment)) = {}

\* is_aligned: (address & (alignment - 1)) == 0
is_aligned(address, alignment) ==
    BitAnd(ToBits(address), ToBits(alignment - 1)) = {}

\* The static assertions of Register; the size of a representation is
\* never 0.
RegisterAccepted(reg_address, n) ==
    /\ n # 0
    /\ is_aligned(reg_address, byte_size(n))

\* The static assertion of MemoryDevice::rw_memory and ro_memory.
MemoryDeviceAccepted(mem_address, byte_offset, alignment) ==
    is_aligned(mem_address + byte_offset, alignment)

\* MemoryDevice: the address of _mem_storage[byte_offset], an array of bytes
\* placed at mem_address; first a variant that always takes the first
\* element.
MemStorage_element_first(mem_address, byte_offset) == mem_address

MemStorage_element(mem_address, byte_offset) == mem_address + byte_offset

\* MemoryDevice::rw_memory and ro_memory: the addresses of the bytes of the
\* reference they return.
MemoryDevice_memory(mem_address, byte_offset, n) ==
    LET first == MemStorage_element(mem_address, byte_offset)
    IN  first .. (first + byte_size(n) - 1)

\* PackedRegister::rw_mem_device and ro_mem_device, d a declaration.
PackedRegister_mem_device(d) ==
    MemoryDevice_memory(d.address, d.bit_offset \div 8, d.size)

\* (first a variant that leaves the size of the register out)
PackedRegisterFits_offset_only(n, bit_offset, size_in_bytes) ==
    bit_offset \div 8 <= size_in_bytes

\* PackedRegister: the register does not overflow the pack.
PackedRegisterFits(n, bit_offset, size_in_bytes) ==
    byte_size(n) + (bit_offset \div 8) <= size_in_bytes

\* The static assertions of PackedRegister and of its base class, which is
\* Register<pack_base + bit_offset / one_byte, reg_size>.
PackedRegisterAccepted(pack_base, size_in_bytes, n, bit_offset) ==
    /\ RegisterAccepted(pack_base + (bit_offset \div 8), n)
    /\ PackedRegisterFits(n, bit_offset, size_in_bytes)
    /\ is_aligned(pack_base, byte_size(n))
    /\ is_aligned(pack_base + (bit_offset \div 8), byte_size(n))

\* Register<reg_address, reg_size> at every address up to MaxAddress.
RegisterDeclarations ==
    { [kind |-> "Register", size |-> n, address |-> a, size_in_bytes |-> 0,
       bit_offset |-> 0]
      : n \in RegBitSizes, a \in 0 .. MaxAddress }

\* PackedRegister<RegisterPack<pack_base, size_in_bytes>, reg_size,
\* bit_offset>: the bit offsets are the multiples of 4 up to the end of the
\* largest pack.
PackedRegisterDeclarations ==
    { [kind |-> "PackedRegister", size |-> n, address |-> a,
       size_in_bytes |-> s, bit_offset |-> 4 * k]
      : n \in RegBitSizes, a \in {0, 2, 4, 8, 12},
        s \in 1 .. MaxPackBytes, k \in 0 .. (2 * MaxPackBytes) }

NoMask == [FirstMask EXCEPT !.st = "none"]

InitAddress ==
    /\ decl \in RegisterDeclarations \cup PackedRegisterDeclarations
    /\ mem = {}
    /\ shadow_value = {}
    /\ mw = NoMergeWrite
    /\ last = NoOp
    /\ rd = NoRead
    /\ wlog = <<>>
    /\ nops = 0
    /\ mk = NoMask
    /\ ctx = NoContexts

\* The declaration of a Register is instantiated.
RegisterDeclare ==
    /\ decl.kind = "Register"
    /\ last.op = "none"
    /\ last' = [NoOp EXCEPT !.op = "Register", !.call = "Register",
                            !.rejected =
                                ~RegisterAccepted(decl.address, decl.size)]
    /\ UNCHANGED <<decl, mem, shadow_value, mw, rd, wlog, nops, mk, ctx>>

\* The declaration of a PackedRegister is instantiated.
PackedRegisterDeclare ==
    /\ decl.kind = "PackedRegister"
    /\ last.op = "none"
    /\ last' = [NoOp EXCEPT !.op = "PackedRegister",
                            !.call = "PackedRegister",
                            !.rejected =
                                ~PackedRegisterAccepted(
                                     decl.address, decl.size_in_bytes,
                                     decl.size, decl.bit_offset)]
    /\ UNCHANGED <<decl, mem, shadow_value, mw, rd, wlog, nops, mk, ctx>>

\* rw_mem_device or ro_mem_device of an accepted register is instantiated:
\* Register asks its own pack for offset 0, PackedRegister asks the pack for
\* bit_offset / one_byte.  The addresses of the bytes reached are kept.
MemDeviceAccess ==
    /\ last.op \in {"Register", "PackedRegister"}
    /\ ~last.rejected
    /\ \E alignment \in alignment_of(decl.size) :
           last' = [NoOp EXCEPT
                       !.op = "mem_device", !.call = last.op,
                       !.value = PackedRegister_mem_device(decl),
                       !.rejected =
                           ~MemoryDeviceAccepted(
                                decl.address, decl.bit_offset \div 8,
                                alignment)]
    /\ UNCHANGED <<decl, mem, shadow_value, mw, rd, wlog, nops, mk, ctx>>

NextAddress == RegisterDeclare \/ PackedRegisterDeclare \/ MemDeviceAccess

SpecAddress == InitAddress /\ [][NextAddress]_vars

----------------------------------------------------------------------------
\* Field.h: the declaration of a field, accepted or not.

\* Widths and offsets are drawn up to MaxExcess past the register's size.
MaxExcess == 1

FieldDeclarations ==
    UNION { { [size |-> n, use_shadow |-> FALSE, reset |-> {},
               fields |-> [name \in {"A"} |->
                              FieldType(width, offset, "read_write")]]
              : width \in 0 .. (n + MaxExcess),
                offset \in 0 .. (n + MaxExcess) }
            : n \in RegBitSizes }

InitField ==
    /\ decl \in FieldDeclarations
    /\ mem = {}
    /\ shadow_value = decl.reset
    /\ mw = NoMergeWrite
    /\ last = NoOp
    /\ rd = NoRead
    /\ wlog = <<>>
    /\ nops = 0
    /\ mk = [FirstMask EXCEPT !.st = "declare"]
    /\ ctx = NoContexts

\* The field is instantiated: its static assertions are evaluated, and the
\* mask of an accepted field is computed.
FieldDeclare ==
    /\ mk.st = "declare"
    /\ LET f == decl.fields["A"]
           ok == FieldAccepted(decl.size, f.width, f.offset)
       IN /\ mk' = [mk EXCEPT !.st = IF ok THEN "make_mask" ELSE "rejected"]
          /\ last' = [NoOp EXCEPT !.op = "Field", !.call = "Field",
                                  !.f = "A", !.rejected = ~ok]
    /\ UNCHANGED <<decl, mem, shadow_value, mw, rd, wlog, nops, ctx>>

NextField == FieldDeclare \/ MakeMaskStep \/ MakeShiftedMask

SpecField == InitField /\ [][NextField]_vars

----------------------------------------------------------------------------
\* RegisterPack.h: PackIndexing, for_loop and pack_loop.

\* Largest loop index and largest number of elements of an indexed pack.
MaxIndex == 7

\* (first a variant without the specialization for_loop<end, end>)
for_loop_specialized_never(start, end) == FALSE

\* for_loop<start, end> is the specialization for_loop<end, end>, whose
\* apply does nothing.
for_loop_specialized(start, end) == start = end

\* The primary template's apply<Func>(): the call of Func's operator()<start>
\* is not guarded, the recursion is guarded by start < end.
for_loop_functor_calls(start, end) == TRUE

for_loop_functor_recurses(start, end) == start < end

\* The primary template's apply(Op&& f): the call and the recursion are both
\* guarded by start < end.
for_loop_callable_calls(start, end) == start < end

for_loop_callable_recurses(start, end) == start < end

\* PackIndexing<T...>::n_elems
n_elems(pack) == Len(pack)

\* pack_loop<IndexedPack> is for_loop<0, IndexedPack::n_elems>.
pack_loop(pack) == [start |-> 0, end |-> n_elems(pack)]

\* Indexed packs of 0 to MaxIndex registers.
IndexedPacks == { [i \in 1 .. n |-> "R"] : n \in 0 .. MaxIndex }

\* for_loop<start, end> instantiates for_loop<start + 1, end> whatever start
\* and end are, so the loops that build are those with start <= end.
LoopDeclarations ==
    { [kind |-> "for_loop", variant |-> v, start |-> a, end |-> b]
      : v \in {"functor", "callable"},
        a \in 0 .. MaxIndex, b \in 0 .. MaxIndex }
    \cup
    { [kind |-> "pack_loop", variant |-> v, start |-> pack_loop(p).start,
       end |-> pack_loop(p).end]
      : v \in {"functor", "callable"}, p \in IndexedPacks }

\* apply is about to be called on for_loop<mk.level, end>; wlog is the
\* sequence of the indices the operation was invoked with.
InitLoop ==
    /\ decl \in {d \in LoopDeclarations : d.start <= d.end}
    /\ mem = {}
    /\ shadow_value = {}
    /\ mw = NoMergeWrite
    /\ last = NoOp
    /\ rd = NoRead
    /\ wlog = <<>>
    /\ nops = 0
    /\ mk = [NoMask EXCEPT !.st = "apply", !.level = decl.start]
    /\ ctx = NoContexts

\* One level of for_loop<start, end>::apply with the given guards.
ForLoopApply(calls, recurses) ==
    /\ mk.st = "apply"
    /\ IF for_loop_specialized(mk.level, decl.end)
       THEN /\ wlog' = wlog
            /\ mk' = [mk EXCEPT !.st = "done"]
       ELSE /\ wlog' = IF calls THEN Append(wlog, mk.level) ELSE wlog
            /\ mk' = IF recurses
                     THEN [mk EXCEPT !.level = @ + 1]
                     ELSE [mk EXCEPT !.st = "done"]
    /\ UNCHANGED <<decl, mem, shadow_value, mw, last, rd, nops, ctx>>

\* template <typename Func> apply()
ForLoopApplyFunctor ==
    /\ decl.variant = "functor"
    /\ ForLoopApply(for_loop_functor_calls(mk.level, decl.end),
                    for_loop_functor_recurses(mk.level, decl.end))

\* template <typename Op> apply(Op&& f)
ForLoopApplyCallable ==
    /\ decl.variant = "callable"
    /\ ForLoopApply(for_loop_callable_calls(mk.level, decl.end),
                    for_loop_callable_recurses(mk.level, decl.end))

NextLoop == ForLoopApplyFunctor \/ ForLoopApplyCallable

\* A call that is entered runs to its end.
SpecLoop == InitLoop /\ [][NextLoop]_vars /\ WF_vars(NextLoop)

----------------------------------------------------------------------------
\* Two contexts write the fields A and B of one register with no
\* synchronisation.  A step is one access to the register or to its shadow
\* value; the accesses of the two contexts interleave in any order.

\* Values written by the contexts.
RaceValues == {ToBits(3), ToBits(5)}

\* The field each context writes.
RaceField == [c \in Contexts |-> IF c = "c1" THEN "A" ELSE "B"]

\* Field::write(value) or Register::merge_write<F>(value).done() on a
\* register without shadow value, Field::write(value) on one with.
RaceKinds == IF decl.use_shadow THEN {"shadow_write"} ELSE {"write", "merge"}

\* Registers whose fields A and B share no bit and are written by
\* read-modify-write: read_write fields, or any fields with a shadow value.
RaceDeclarations ==
    {d \in Declarations :
        /\ FieldBitsOf(d.fields["A"]) \cap FieldBitsOf(d.fields["B"]) = {}
        /\ \A name \in {"A", "B"} : HasWrite(d.fields[name].policy)
        /\ d.use_shadow \/ d.fields["A"].policy = "read_write"}

InitRace == Init /\ decl \in RaceDeclarations

\* An access of context c is entered in the log of accesses; the register
\* and the shadow value before the first access are kept.
Access(c, acc, loc) == [c |-> c, acc |-> acc, loc |-> loc]

RaceLog(c, acc, loc) ==
    /\ wlog' = Append(wlog, Access(c, acc, loc))
    /\ last' = IF last.op = "none"
               THEN Done("race", "-", {}, FALSE, 0, 0)
               ELSE last

\* RegisterWrite::write, not trivial: mmio_device is loaded.
RaceLoad(c, kind, value) ==
    /\ Declared
    /\ ctx[c].pc = "idle"
    /\ kind \in RaceKinds \ {"shadow_write"}
    /\ RegisterWrite_loads(decl.size, decl.fields[RaceField[c]].mask,
                           decl.fields[RaceField[c]].offset) = 1
    /\ ctx' = [ctx EXCEPT ![c] = [pc |-> "loaded", kind |-> kind,
                                  f |-> RaceField[c], value |-> value,
                                  tmp |-> mem]]
    /\ RaceLog(c, "load", "mem")
    /\ UNCHANGED <<decl, mem, shadow_value, mw, rd, nops, mk>>

\* RegisterWrite::write, not trivial: mmio_device is stored, from the value
\* loaded.
RaceStore(c) ==
    LET n == decl.size
        f == decl.fields[ctx[c].f]
    IN  /\ ctx[c].pc = "loaded"
        /\ mem' = IF ctx[c].kind = "write"
                  THEN Field_write_mem(n, f, ctx[c].tmp, ctx[c].value)
                  ELSE MergeWrite_done(n, ctx[c].tmp, f.mask,
                                       Register_merge_write(n, f, ctx[c].value))
        /\ ctx' = [ctx EXCEPT ![c].pc = "done"]
        /\ RaceLog(c, "store", "mem")
        /\ UNCHANGED <<decl, shadow_value, mw, rd, nops, mk>>

\* Field::write(value) with shadow value: shadow_value is loaded.
RaceShadowLoad(c, value) ==
    /\ Declared
    /\ ctx[c].pc = "idle"
    /\ "shadow_write" \in RaceKinds
    /\ ctx' = [ctx EXCEPT ![c] = [pc |-> "shadow_loaded",
                                  kind |-> "shadow_write",
                                  f |-> RaceField[c], value |-> value,
                                  tmp |-> shadow_value]]
    /\ RaceLog(c, "load", "shadow")
    /\ UNCHANGED <<decl, mem, shadow_value, mw, rd, nops, mk>>

\* Field::write(value) with shadow value: shadow_value is stored.
RaceShadowStore(c) ==
    LET n == decl.size
        f == decl.fields[ctx[c].f]
    IN  /\ ctx[c].pc = "shadow_loaded"
        /\ shadow_value' = Field_write_shadow(n, f, ctx[c].tmp, ctx[c].value)
        /\ ctx' = [ctx EXCEPT ![c].pc = "shadow_stored",
                              ![c].tmp = shadow_value']
        /\ RaceLog(c, "store", "shadow")
        /\ UNCHANGED <<decl, mem, mw, rd, nops, mk>>

\* Field::write(value) with shadow value: shadow_value is the argument of
\* policy::write.  It is not volatile: the build loads it again or passes
\* the value it has just stored.
RaceShadowArg(c) ==
    /\ ctx[c].pc = "shadow_stored"
    /\ \/ /\ ctx' = [ctx EXCEPT ![c].pc = "shadow_arg",
                                 ![c].tmp = shadow_value]
          /\ RaceLog(c, "load", "shadow")
       \/ /\ ctx' = [ctx EXCEPT ![c].pc = "shadow_arg"]
          /\ UNCHANGED <<wlog, last>>
    /\ UNCHANGED <<decl, mem, shadow_value, mw, rd, nops, mk>>

\* Field::write(value) with shadow value: the register is stored.
RaceMemStore(c) ==
    LET n == decl.size
        f == decl.fields[ctx[c].f]
    IN  /\ ctx[c].pc = "shadow_arg"
        /\ mem' = Field_write_shadow_mem(n, f, mem, ctx[c].tmp)
        /\ ctx' = [ctx EXCEPT ![c].pc = "done"]
        /\ RaceLog(c, "store", "mem")
        /\ UNCHANGED <<decl, shadow_value, mw, rd, nops, mk>>

RaceOps ==
    \E c \in Contexts :
        \/ \E kind \in RaceKinds : \E value \in RaceValues :
               RaceLoad(c, kind, value)
        \/ RaceStore(c)
        \/ \E value \in RaceValues : RaceShadowLoad(c, value)
        \/ RaceShadowStore(c)
        \/ RaceShadowArg(c)
        \/ RaceMemStore(c)

NextRace == MakeMaskStep \/ MakeShiftedMask \/ RaceOps

SpecRace == InitRace /\ [][NextRace]_vars

----------------------------------------------------------------------------
\* Two contexts each write one field of a register without shadow value,
\* with Field::write(value) or Field::write<value>(); a step is one access
\* to the register.

StoreDeclarations == {d \in Declarations : ~d.use_shadow}

InitStore == Init /\ decl \in StoreDeclarations

\* policy::write is entered: the trivial overload of RegisterWrite::write or
\* RegisterWriteConstant::write stores the register, the other overload
\* loads it.
RaceFieldWrite(c, kind, fname, value) ==
    LET n == decl.size
        f == decl.fields[fname]
    IN  /\ Declared
        /\ ctx[c].pc = "idle"
        /\ HasWrite(f.policy)
        /\ kind = "write_constant" => Field_write_constant_accepted(f, value)
        /\ IF policy_write_loads(f.policy, n, f.mask, f.offset) = 0
           THEN /\ mem' = IF kind = "write"
                          THEN Field_write_mem(n, f, mem, value)
                          ELSE Field_write_constant_mem(n, f, mem, value)
                /\ ctx' = [ctx EXCEPT ![c] = [pc |-> "done", kind |-> kind,
                                              f |-> fname, value |-> value,
                                              tmp |-> {}]]
                /\ RaceLog(c, "store", "mem")
           ELSE /\ mem' = mem
                /\ ctx' = [ctx EXCEPT ![c] = [pc |-> "loaded", kind |-> kind,
                                              f |-> fname, value |-> value,
                                              tmp |-> mem]]
                /\ RaceLog(c, "load", "mem")
        /\ UNCHANGED <<decl, shadow_value, mw, rd, nops, mk>>

\* The overload that is not trivial stores the register, from the value
\* loaded.
RaceFieldStore(c) ==
    LET n == decl.size
        f == decl.fields[ctx[c].f]
    IN  /\ ctx[c].pc = "loaded"
        /\ mem' = IF ctx[c].kind = "write"
                  THEN Field_write_mem(n, f, ctx[c].tmp, ctx[c].value)
                  ELSE Field_write_constant_mem(n, f, ctx[c].tmp,
                                                ctx[c].value)
        /\ ctx' = [ctx EXCEPT ![c].pc = "done"]
        /\ RaceLog(c, "store", "mem")
        /\ UNCHANGED <<decl, shadow_value, mw, rd, nops, mk>>

NextStore ==
    \/ MakeMaskStep
    \/ MakeShiftedMask
    \/ \E c \in Contexts : \E kind \in {"write", "write_constant"} :
           \E fname \in FieldNames : \E value \in RaceValues :
               RaceFieldWrite(c, kind, fname, value)
    \/ \E c \in Contexts : RaceFieldStore(c)

SpecStore == InitStore /\ [][NextStore]_vars

----------------------------------------------------------------------------
\* Properties
\*
\* The properties are stated on bit positions, without the operators above:
\* a field of width w at offset o owns the positions o .. o + w - 1.

FieldBits(f) == f.offset .. (f.offset + f.width - 1)

Outside(a, f) == {i \in a : i < f.offset \/ i >= f.offset + f.width}

Inside(a, f) == {i \in a : i >= f.offset /\ i < f.offset + f.width}

\* 2^width - 1
LowBits(width) == 0 .. (width - 1)

\* value < 2^width
Fits(value, width) == \A i \in value : i < width

\* (value mod 2^f.width) * 2^f.offset
Placed(value, f) == {i + f.offset : i \in {j \in value : j < f.width}}

LastField == decl.fields[last.f]

ReadField == decl.fields[rd.f]

\* C1: on a register without shadow value, Field::write(v) with v < 2^w on a
\* read_write field leaves every bit outside the field as it was, and a
\* Field::read() that follows it returns v.
C1_RoundTripWithFrame ==
    (/\ last.op = "write"
     /\ ~decl.use_shadow
     /\ LastField.policy = "read_write"
     /\ Fits(last.value, LastField.width))
    => /\ Outside(mem, LastField) = Outside(last.pre_mem, LastField)
       /\ (rd.op = "read" /\ rd.f = last.f => rd.ret = last.value)

C1_Witness ==
    /\ last.op = "write"
    /\ ~decl.use_shadow
    /\ decl.size = 64
    /\ LastField.policy = "read_write"
    /\ LastField.width < decl.size
    /\ Fits(last.value, LastField.width)
    /\ last.value # {}
    /\ Inside(last.pre_mem, LastField) # Placed(last.value, LastField)
    /\ Outside(last.pre_mem, LastField) # {}
    /\ rd.op = "read"
    /\ rd.f = last.f
    /\ rd.ret = last.value

\* The value the fields of a chain accumulate, in the order of the chain.
RECURSIVE ChainValue(_, _)
ChainValue(chain, k) ==
    IF k = 0 THEN {}
    ELSE Outside(ChainValue(chain, k - 1), decl.fields[chain[k].f])
             \cup Placed(chain[k].value, decl.fields[chain[k].f])

\* The OR of the masks of the fields of a chain.
ChainMask(chain) ==
    UNION {FieldBits(decl.fields[chain[k].f]) : k \in 1 .. Len(chain)}

\* C2: a chain merge_write<F1>(v1).with<F2>(v2)...done() on a register
\* without shadow value stores nothing before done() and stores once at
\* done(), and the register is then
\* (original & ~combined_mask) | (accumulated_value & combined_mask); with
\* A (mask 0x0F) = 3 and B (mask 0xF0) = 5 it is (original & ~0xFF) | 0x53.
C2_MergeWriteOneStore ==
    mw.kind = "MergeWrite" =>
        /\ mw.st = "building" => mem = mw.pre_mem /\ mw.stores = 0
        /\ mw.st = "committed" =>
               /\ mw.stores = 1
               /\ mem = (mw.pre_mem \ ChainMask(mw.chain))
                            \cup (ChainValue(mw.chain, Len(mw.chain))
                                      \cap ChainMask(mw.chain))
        /\ (/\ mw.st = "committed"
            /\ decl.fields["A"].width = 4 /\ decl.fields["A"].offset = 0
            /\ decl.fields["B"].width = 4 /\ decl.fields["B"].offset = 4
            /\ mw.chain = << [f |-> "A", value |-> ToBits(3)],
                             [f |-> "B", value |-> ToBits(5)] >>)
           => mem = {i \in mw.pre_mem : i > 7} \cup ToBits(83)

C2_Witness ==
    /\ mw.kind = "MergeWrite"
    /\ mw.st = "committed"
    /\ decl.size = 32
    /\ mw.chain = << [f |-> "A", value |-> ToBits(3)],
                     [f |-> "B", value |-> ToBits(5)] >>
    /\ decl.fields["A"].width = 4 /\ decl.fields["B"].offset = 4
    /\ {i \in mw.pre_mem : i > 7} # {}
    /\ {i \in mem : i <= 7} = ToBits(83)
    /\ mem # mw.pre_mem

\* The field writes of the log applied in order to the reset value.
RECURSIVE ShadowAfter(_, _)
ShadowAfter(log, k) ==
    IF k = 0 THEN decl.reset
    ELSE Outside(ShadowAfter(log, k - 1), decl.fields[log[k].f])
             \cup Placed(log[k].value, decl.fields[log[k].f])

\* C3: on a register with shadow value, the shadow value is the reset value
\* before any write, after any sequence of field writes it is these writes
\* applied in order to the reset value, and the register holds the whole
\* shadow value after a write.
C3_ShadowConsistency ==
    decl.use_shadow =>
        /\ shadow_value = ShadowAfter(wlog, Len(wlog))
        /\ wlog = <<>> => shadow_value = decl.reset
        /\ (last.op \in {"write", "write_constant"} /\ ~last.rejected)
           => mem = shadow_value /\ last.stores = 1

C3_Witness ==
    /\ decl.use_shadow
    /\ \A name \in FieldNames : decl.fields[name].policy = "write_only"
    /\ Len(wlog) = 2
    /\ wlog[1].f # wlog[2].f
    /\ last.op = "write"
    /\ shadow_value # decl.reset
    /\ shadow_value # last.pre_shadow
    /\ mem = shadow_value
    /\ mem # last.pre_mem
    /\ mem # Placed(last.value, LastField)

\* C4: is_set() is true iff every bit of the field is 1, which is iff read()
\* is 2^width - 1, and is_clear() is true iff read() is 0, for every width;
\* a 3-bit field that holds 6 is not set and one that holds 7 is.
C4_IsSetIsClear ==
    rd.op = "read" =>
        /\ rd.is_set <=> rd.ret = LowBits(ReadField.width)
        /\ rd.is_set <=> FieldBits(ReadField) \subseteq mem
        /\ rd.is_clear <=> rd.ret = {}
        /\ rd.is_clear <=> Inside(mem, ReadField) = {}
        /\ (ReadField.width = 3 /\ rd.ret = ToBits(6)) => ~rd.is_set
        /\ (ReadField.width = 3 /\ rd.ret = ToBits(7)) => rd.is_set

C4_Witness ==
    /\ rd.op = "read"
    /\ ReadField.width = 3
    /\ rd.ret = ToBits(6)
    /\ ~rd.is_set
    /\ ~rd.is_clear

\* make_mask has returned the low mk.level bits, for every level reached.
MaskLowBits == mk.mask = LowBits(mk.level)

\* The mask of field A is its width low bits moved up by its offset.
MaskShifted ==
    decl.fields["A"].mask =
        {i + decl.fields["A"].offset : i \in LowBits(decl.fields["A"].width)}

\* C5: make_mask(w) is the w low bits for every w in 0 .. n, made without
\* an undefined shift, and make_shifted_mask(w, o) is make_mask(w) << o,
\* made without an undefined shift and accepted as a constant, for every
\* pair with w + o <= n.
C5_AsStated ==
    /\ MaskLowBits
    /\ mk.st \in {"done", "rejected"}
           => shift_defined(decl.size, decl.fields["A"].offset)
    /\ mk.st # "rejected"
    /\ Declared => MaskShifted

\* The mask of a field of width 0 at offset 32 of a 32-bit register was
\* instantiated: make_mask(0) is 0, the shift by 32 is undefined and the
\* constant is rejected.
C5_Witness ==
    /\ mk.st = "rejected"
    /\ decl.size = 32
    /\ decl.fields["A"].width = 0
    /\ decl.fields["A"].offset = 32
    /\ mk.level = 0
    /\ mk.mask = {}
    /\ ~shift_defined(decl.size, decl.fields["A"].offset)

Trivial(f) == f.width = decl.size /\ f.offset = 0

\* C6: on a field that covers the whole register at offset 0, read(),
\* write(value) and write<value>() give what the general path gives:
\* (raw & mask) >> offset for the read and
\* (raw & ~mask) | ((value << offset) & mask) for the writes.
C6_TrivialEquivalence ==
    /\ (rd.op = "read" /\ Trivial(ReadField))
       => rd.ret = RegisterRead_read_not_trivial(
                       decl.size, mem, ReadField.mask, ReadField.offset)
    /\ (/\ last.op = "write"
        /\ ~decl.use_shadow
        /\ LastField.policy = "read_write"
        /\ Trivial(LastField))
       => mem = RegisterWrite_write_not_trivial(
                    decl.size, last.pre_mem, LastField.mask, LastField.offset,
                    last.value)
    /\ (/\ last.op = "write_constant"
        /\ ~last.rejected
        /\ ~decl.use_shadow
        /\ LastField.policy = "read_write"
        /\ Trivial(LastField))
       => mem = RegisterWriteConstant_write_not_trivial(
                    decl.size, last.pre_mem, LastField.mask, LastField.offset,
                    last.value)

C6_Witness ==
    /\ last.op = "write"
    /\ ~decl.use_shadow
    /\ LastField.policy = "read_write"
    /\ Trivial(LastField)
    /\ last.value = ToBits(5)
    /\ last.pre_mem # {}
    /\ mem = ToBits(5)
    /\ rd.op = "read"
    /\ rd.f = last.f
    /\ rd.ret = ToBits(5)

\* C7: on a read_write field with mask m, set() leaves raw | m, clear()
\* leaves raw & ~m and toggle() leaves raw ^ m, whether m is a part of the
\* register or the whole of it.
C7_SetClearToggle ==
    /\ last.op = "set" => mem = last.pre_mem \cup FieldBits(LastField)
    /\ last.op = "clear" => mem = last.pre_mem \ FieldBits(LastField)
    /\ last.op = "toggle" =>
           mem = (last.pre_mem \ FieldBits(LastField))
                     \cup (FieldBits(LastField) \ last.pre_mem)

C7_Witness ==
    /\ last.op = "set"
    /\ LastField.width < decl.size
    /\ Outside(last.pre_mem, LastField) # {}
    /\ Inside(last.pre_mem, LastField) # FieldBits(LastField)
    /\ Inside(mem, LastField) = FieldBits(LastField)
    /\ Outside(mem, LastField) = Outside(last.pre_mem, LastField)

\* C8: on a register without shadow value, write(v) on a write_only field
\* stores the whole register without loading it: the register is then
\* (v << o) & m, and every bit outside the field is 0.
C8_WriteOnlyWholeRegister ==
    (/\ last.op = "write"
     /\ ~decl.use_shadow
     /\ LastField.policy = "write_only")
    => /\ mem = Placed(last.value, LastField)
       /\ Outside(mem, LastField) = {}
       /\ last.loads = 0
       /\ last.stores = 1

C8_Witness ==
    /\ last.op = "write"
    /\ ~decl.use_shadow
    /\ LastField.policy = "write_only"
    /\ LastField.width < decl.size
    /\ Outside(last.pre_mem, LastField) # {}
    /\ mem = Placed(last.value, LastField)
    /\ mem # {}

\* C9: on a register without shadow value, Field::write(v) with v >= 2^width
\* is not rejected; the field then holds v mod 2^width and, under the
\* read_write policy, no bit outside the field changes.
C9_RuntimeOverflowTruncated ==
    (/\ last.op = "write"
     /\ ~decl.use_shadow
     /\ ~Fits(last.value, LastField.width))
    => /\ ~last.rejected
       /\ Inside(mem, LastField) = Placed(last.value, LastField)
       /\ LastField.policy = "read_write"
          => Outside(mem, LastField) = Outside(last.pre_mem, LastField)

C9_Witness ==
    /\ last.op = "write"
    /\ ~decl.use_shadow
    /\ LastField.policy = "read_write"
    /\ LastField.width = 1
    /\ last.value = ToBits(5)
    /\ ~last.rejected
    /\ Inside(last.pre_mem, LastField) = {}
    /\ Inside(mem, LastField) = FieldBits(LastField)
    /\ Outside(last.pre_mem, LastField) # {}
    /\ Outside(mem, LastField) = Outside(last.pre_mem, LastField)

\* C10: Field::write<value>() is rejected, with no change of the register or
\* of the shadow value, iff value > 2^width - 1, and otherwise does what
\* write(value) does; on a 4-bit field 16 is rejected and 15 is accepted and
\* sets the four bits of the field. merge_write<F, value>() and
\* with<F, value>() accept the same values.
C10_ConstantOverflowRejected ==
    /\ last.op = "write_constant" =>
           /\ last.rejected <=> ~Fits(last.value, LastField.width)
           /\ last.rejected
              => mem = last.pre_mem /\ shadow_value = last.pre_shadow
           /\ (~last.rejected /\ ~decl.use_shadow)
              => mem = Field_write_mem(decl.size, LastField, last.pre_mem,
                                       last.value)
           /\ (~last.rejected /\ decl.use_shadow)
              => /\ shadow_value = Field_write_shadow(
                                       decl.size, LastField, last.pre_shadow,
                                       last.value)
                 /\ mem = Field_write_shadow_mem(decl.size, LastField,
                                                 last.pre_mem, shadow_value)
           /\ (LastField.width = 4 /\ last.value = ToBits(16))
              => last.rejected
           /\ (LastField.width = 4 /\ last.value = ToBits(15))
              => ~last.rejected /\ FieldBits(LastField) \subseteq mem
    /\ (last.op \in {"merge_write_constant", "with_constant"}
        /\ ~decl.use_shadow)
       => (last.rejected <=> ~Fits(last.value, LastField.width))

\* with<F, 15>() on a 4-bit field of the register of a constant-value
\* merge write is rejected although 15 fits.
C10_Witness ==
    /\ last.op = "with_constant"
    /\ ~decl.use_shadow
    /\ LastField.width = 4
    /\ last.value = ToBits(15)
    /\ Fits(last.value, LastField.width)
    /\ last.rejected
    /\ mw.st = "building"
    /\ mw.regs = {mw.reg}

\* The operations the policies grant, as the table of the access policies
\* gives them.
Granted(policy, call) ==
    \/ call \in {"read", "is_set", "is_clear"}
       /\ policy \in {"read_only", "read_write"}
    \/ call \in {"write", "write_constant"}
       /\ policy \in {"read_write", "write_only"}
    \/ call \in {"set", "clear", "toggle"} /\ policy = "read_write"

\* C11: a field has exactly the operations its access policy grants: a call
\* that runs is a granted one, a granted call is never refused, and a call
\* that is not granted is refused and accesses neither the register nor the
\* shadow value.
C11_PolicyCapabilities ==
    /\ \A policy \in Policies : \A call \in FieldCalls :
           PolicyHasMember(policy, call) <=> Granted(policy, call)
    /\ last.op \in FieldCalls => Granted(LastField.policy, last.op)
    /\ rd.op = "read" => Granted(ReadField.policy, "read")
    /\ last.op = "no_member" =>
           /\ ~Granted(LastField.policy, last.call)
           /\ last.rejected
           /\ mem = last.pre_mem
           /\ shadow_value = last.pre_shadow
           /\ last.loads = 0 /\ last.stores = 0

C11_Witness ==
    /\ last.op = "no_member"
    /\ last.call = "write"
    /\ LastField.policy = "read_only"
    /\ nops = 1
    /\ mem = last.pre_mem
    /\ wlog # <<>>

\* C12: merge_write<F>(value) and merge_write<F, value>() on a register with
\* shadow value are refused: no merge write exists, and the register and the
\* shadow value are unchanged.
C12_MergeWriteShadowRejected ==
    decl.use_shadow =>
        /\ mw = NoMergeWrite
        /\ last.op \in {"merge_write", "merge_write_constant"} =>
               /\ last.rejected
               /\ mem = last.pre_mem
               /\ shadow_value = last.pre_shadow
               /\ last.loads = 0 /\ last.stores = 0
        /\ last.op \notin {"with", "with_constant", "done"}

C12_Witness ==
    /\ decl.use_shadow
    /\ last.op = "merge_write"
    /\ Fits(last.value, LastField.width)
    /\ last.rejected
    /\ mw = NoMergeWrite
    /\ mem = last.pre_mem
    /\ shadow_value = decl.reset

\* C13: with<F>(value) and with<F, value>() are accepted only for a field F
\* of the register of the merge write and are refused, with the merge write
\* unchanged, for a field of another register; the fields of a merge write
\* are all fields of its register.
C13_WithSameRegister ==
    /\ mw.st # "none" => mw.regs = {mw.reg}
    /\ (last.op \in {"with", "with_constant"} /\ ~last.rejected)
       => /\ mw.regs = {mw.reg}
          /\ mw.chain[Len(mw.chain)] = [f |-> last.f, value |-> last.value]
    /\ (last.op = "with" /\ last.rejected)
       => /\ mw.st = "building"
          /\ mem = last.pre_mem
          /\ last.stores = 0

C13_Witness ==
    /\ mw.st = "building"
    /\ mw.kind = "MergeWrite"
    /\ last.op = "with"
    /\ last.rejected
    /\ last.value = ToBits(5)
    /\ Fits(last.value, LastField.width)
    /\ Len(mw.chain) = 2
    /\ mw.regs = {"R"}

\* A merge write of two fields went out of scope without done(): no store
\* was made and the register is not what done() would have left.
C14_Witness ==
    /\ mw.st = "destroyed"
    /\ mw.kind = "MergeWrite"
    /\ Len(mw.chain) = 2
    /\ mw.stores = 0
    /\ mem = mw.pre_mem
    /\ mem # (mw.pre_mem \ ChainMask(mw.chain))
                 \cup (ChainValue(mw.chain, Len(mw.chain))
                           \cap ChainMask(mw.chain))

\* C14 as stated: every merge write that is created makes its one store on
\* every path, at done() or when it goes out of scope without done().
C14_AsStated == mw.st \in {"committed", "destroyed"} => mw.stores = 1

\* C15 as stated: a merge write on which done() was called is consumed: it
\* is neither committed nor extended again, and no merge write makes more
\* than one store.
C15_AsStated ==
    /\ mw.stores <= 1
    /\ (mw.reused > 0 /\ last.op \in {"done", "with", "with_constant"})
       => last.rejected

C15_Witness ==
    /\ mw.st = "committed"
    /\ mw.kind = "MergeWrite"
    /\ mw.reused = 1
    /\ mw.stores = 2
    /\ Len(mw.chain) = 2

----------------------------------------------------------------------------
\* C16: a Register declaration is accepted exactly when its address is a
\* multiple of the byte size of its representation, and the access to the
\* memory of an accepted register is accepted too; is_aligned agrees with
\* address mod alignment = 0 for the alignments 1, 2, 4 and 8.
C16_AlignmentRejection ==
    /\ decl.kind = "Register" =>
           /\ \A alignment \in {1, 2, 4, 8} :
                  is_aligned(decl.address, alignment)
                      <=> decl.address % alignment = 0
           /\ last.op = "Register" =>
                  (last.rejected <=> decl.address % (decl.size \div 8) # 0)
           /\ last.op = "mem_device" =>
                  /\ ~last.rejected
                  /\ decl.address % (decl.size \div 8) = 0

\* A 32-bit register at address 6 is rejected.
C16_Witness ==
    /\ decl.kind = "Register"
    /\ decl.size = 32
    /\ decl.address = 6
    /\ last.op = "Register"
    /\ last.rejected

\* The byte offsets of a packed register: first, last, one past the last.
PackedFirstByte == decl.bit_offset \div 8

PackedEnd == PackedFirstByte + decl.size \div 8

\* C17: an accepted PackedRegister lies inside its pack and its effective
\* address is a multiple of the byte size of its representation; a register
\* with a byte past the end of the pack is rejected.
C17_PackedRegisterInsidePack ==
    (decl.kind = "PackedRegister" /\ last.op = "PackedRegister") =>
        /\ ~last.rejected =>
               /\ \A b \in PackedFirstByte .. (PackedEnd - 1) :
                      b \in 0 .. (decl.size_in_bytes - 1)
               /\ (decl.address + PackedFirstByte) % (decl.size \div 8) = 0
        /\ PackedEnd > decl.size_in_bytes => last.rejected

\* A 32-bit register at byte 4 of a pack of 6 bytes at address 8: it is
\* aligned, its first bytes are inside the pack and its last byte is past
\* the end, and it is rejected.
C17_Witness ==
    /\ decl.kind = "PackedRegister"
    /\ last.op = "PackedRegister"
    /\ decl.size = 32
    /\ decl.address = 8
    /\ decl.size_in_bytes = 6
    /\ decl.bit_offset = 32
    /\ PackedFirstByte < decl.size_in_bytes
    /\ PackedEnd > decl.size_in_bytes
    /\ last.rejected

----------------------------------------------------------------------------
\* C18: a Field declaration is accepted exactly when width > 0 and
\* offset + width <= the register's size; the mask of an accepted field is
\* not 0, has no bit outside the register's representation and is the
\* width low bits moved up by offset, all width of them.
C18_FieldAcceptedMask ==
    LET f == decl.fields["A"] IN
    /\ last.op = "Field" =>
           (~last.rejected <=>
                (f.width > 0 /\ f.offset + f.width <= decl.size))
    /\ (last.op = "Field" /\ Declared) =>
           /\ ~last.rejected
           /\ f.mask # {}
           /\ f.mask \subseteq Word(decl.size)
           /\ f.mask = {i + f.offset : i \in LowBits(f.width)}
           /\ Cardinality(f.mask) = f.width

\* The top bit of a 32-bit register is accepted, with the mask 2^31.
C18_Witness ==
    /\ last.op = "Field"
    /\ Declared
    /\ decl.size = 32
    /\ decl.fields["A"].width = 1
    /\ decl.fields["A"].offset = 31
    /\ decl.fields["A"].mask = {31}

----------------------------------------------------------------------------
\* The indices a .. b - 1 in ascending order.
Ascending(a, b) == [i \in 1 .. (b - a) |-> a + i - 1]

\* The operation was invoked with start, start + 1, ... up to the level
\* reached, once each and in this order; with all of [start, end) and
\* nothing else once apply has returned.
LoopVisits ==
    /\ mk.st = "apply" => wlog = Ascending(decl.start, mk.level)
    /\ mk.st = "done" => wlog = Ascending(decl.start, decl.end)

\* C19: for_loop<start, end> with start <= end, and pack_loop over a pack
\* of N elements as [0, N), returns after invoking the operation once for
\* each index of [start, end) in ascending order, and not at all when
\* start = end; so does the functor variant as the callable variant.
C19_LoopVisitsRange == [](LoopVisits) /\ <>(mk.st = "done")

\* The functor variant of pack_loop over 4 registers has returned after
\* the indices 0, 1, 2, 3.
C19_Witness ==
    /\ decl.kind = "pack_loop"
    /\ decl.variant = "functor"
    /\ decl.end = 4
    /\ mk.st = "done"
    /\ wlog = <<0, 1, 2, 3>>

----------------------------------------------------------------------------
\* Both contexts have finished their write.
AllDone == \A c \in Contexts : ctx[c].pc = "done"

\* Position in the log of the access acc of context c to the register.
MemAccess(c, acc) ==
    CHOOSE i \in 1 .. Len(wlog) : wlog[i] = Access(c, acc, "mem")

\* The context that stored the register last, and the other one.
LastStorer ==
    CHOOSE c \in Contexts :
        \A o \in Contexts : MemAccess(o, "store") <= MemAccess(c, "store")

OtherThan(c) == CHOOSE o \in Contexts : o # c

\* The accesses of one context all come before the accesses of the other.
Serial ==
    \E k \in 0 .. Len(wlog) :
        /\ \A i \in 1 .. k : wlog[i].c = wlog[1].c
        /\ \A i \in (k + 1) .. Len(wlog) : wlog[i].c # wlog[1].c

\* The field of context c holds the value c wrote, in the word a.
Holds(a, c) ==
    Inside(a, decl.fields[ctx[c].f])
        = Placed(ctx[c].value, decl.fields[ctx[c].f])

\* The field of context c is as before the writes, in the word a.
Stale(a, c, before) ==
    Inside(a, decl.fields[ctx[c].f]) = Inside(before, decl.fields[ctx[c].f])

\* C20: the load and the store of a field write, of a shadow write and of a
\* merge-write commit are separate accesses.  When two contexts have each
\* written one of two disjoint fields, the bits outside both fields are
\* unchanged, and both fields hold the values written if the writes did not
\* interleave.
\* Without shadow value, the field of the context that stored last holds
\* its value, and the other field holds its value only if the last storer
\* loaded the register after the other stored it: else it is as before the
\* writes.  With shadow value, each field holds its value or is as the
\* shadow value was before the writes.
C20_ReadModifyWriteNotAtomic ==
    AllDone =>
        LET before == IF decl.use_shadow THEN last.pre_shadow
                      ELSE last.pre_mem
            a == decl.fields["A"]
            b == decl.fields["B"]
            l == LastStorer
            o == OtherThan(l)
        IN  /\ Outside(Outside(mem, a), b) = Outside(Outside(before, a), b)
            /\ Serial => \A c \in Contexts : Holds(mem, c)
            /\ ~decl.use_shadow =>
                   /\ \A c \in Contexts :
                          MemAccess(c, "load") < MemAccess(c, "store")
                   /\ Holds(mem, l)
                   /\ IF MemAccess(o, "store") < MemAccess(l, "load")
                      THEN Holds(mem, o)
                      ELSE Stale(mem, o, before)
            /\ decl.use_shadow =>
                   \A c \in Contexts :
                       /\ Holds(mem, c) \/ Stale(mem, c, before)
                       /\ Holds(shadow_value, c)
                              \/ Stale(shadow_value, c, before)

\* A field write of A and a merge-write commit of B have interleaved, and
\* A does not hold the value written to it.
C20_Witness ==
    /\ AllDone
    /\ ~decl.use_shadow
    /\ ctx["c1"].kind = "write"
    /\ ctx["c2"].kind = "merge"
    /\ ~Serial
    /\ ~Holds(mem, "c1")
    /\ Holds(mem, "c2")

\* Two shadow writes have interleaved, and the register does not hold the
\* value written to B, nor does the shadow value.
LostShadowWrite ==
    /\ AllDone
    /\ decl.use_shadow
    /\ ~Serial
    /\ Holds(mem, "c1")
    /\ ~Holds(mem, "c2")
    /\ ~Holds(shadow_value, "c2")

\* Two shadow writes have interleaved, and the register no longer is the
\* shadow value.
ShadowAndRegisterDiffer ==
    /\ AllDone
    /\ decl.use_shadow
    /\ mem # shadow_value

----------------------------------------------------------------------------
\* The accesses of context c, in the order it made them.
AccessesOf(c) == SelectSeq(wlog, LAMBDA e : e.c = c)

\* Context c has written alone: the other context has not started.
Alone(c) == ctx[c].pc = "done" /\ ctx[OtherThan(c)].pc = "idle"

\* C21: a field write on a register with shadow value stores the shadow
\* value first and the register after it, and never loads the register
\* (the shadow value may be loaded again in between, or not);
\* the shadow value becomes (shadow & ~mask) | ((value << offset) & mask)
\* and the register becomes the whole updated shadow value, for read_write
\* and write_only fields alike.
C21_ShadowBeforeRegister ==
    decl.use_shadow =>
        /\ \A i \in 1 .. Len(wlog) : wlog[i] # Access(wlog[i].c, "load", "mem")
        /\ \A c \in Contexts :
               /\ ctx[c].pc = "shadow_arg" =>
                      \/ AccessesOf(c) = << Access(c, "load", "shadow"),
                                            Access(c, "store", "shadow") >>
                      \/ AccessesOf(c) = << Access(c, "load", "shadow"),
                                            Access(c, "store", "shadow"),
                                            Access(c, "load", "shadow") >>
               /\ ctx[c].pc = "done" =>
                      \/ AccessesOf(c) = << Access(c, "load", "shadow"),
                                            Access(c, "store", "shadow"),
                                            Access(c, "store", "mem") >>
                      \/ AccessesOf(c) = << Access(c, "load", "shadow"),
                                            Access(c, "store", "shadow"),
                                            Access(c, "load", "shadow"),
                                            Access(c, "store", "mem") >>
               /\ Alone(c) =>
                      LET f == decl.fields[ctx[c].f] IN
                      /\ Inside(shadow_value, f) = Placed(ctx[c].value, f)
                      /\ Outside(shadow_value, f) = Outside(last.pre_shadow, f)
                      /\ mem = shadow_value

\* A write_only field of a 16-bit register with shadow value was written:
\* the register, which was not the reset value, is the new shadow value.
C21_Witness ==
    /\ decl.use_shadow
    /\ decl.size = 16
    /\ decl.fields["B"].policy = "write_only"
    /\ Alone("c2")
    /\ Len(wlog) = 3
    /\ mem = shadow_value
    /\ last.pre_mem # last.pre_shadow
    /\ Inside(mem, decl.fields["B"]) # Inside(last.pre_shadow, decl.fields["B"])
    /\ Outside(mem, decl.fields["B"]) # Outside(last.pre_mem, decl.fields["B"])

----------------------------------------------------------------------------
\* C22: done() of a merge write whose combined mask is the whole register
\* stores the accumulated value without loading the register; with any
\* other mask it loads the register once and stores it once.  Either way
\* the register becomes
\* (original & ~combined_mask) | (accumulated_value & combined_mask).
C22_CommitStoreOrLoadStore ==
    (mw.st = "committed" /\ last.op = "done") =>
        /\ last.stores = 1
        /\ last.loads = IF mw.mask = Word(decl.size) THEN 0 ELSE 1
        /\ mem = (last.pre_mem \ mw.mask) \cup (last.value \cap mw.mask)
        /\ mw.mask = Word(decl.size) => mem = last.value

\* A constant-value merge write of the whole 32-bit register was committed
\* with no load, and the register, all of it, is the accumulated value.
C22_Witness ==
    /\ mw.st = "committed"
    /\ last.op = "done"
    /\ mw.kind = "MergeWrite_tmpl"
    /\ decl.size = 32
    /\ mw.mask = Word(32)
    /\ last.loads = 0
    /\ last.stores = 1
    /\ mem = last.value
    /\ mem # last.pre_mem

----------------------------------------------------------------------------
\* _accumulated_value of the runtime merge write after the first k fields
\* of a chain: Register::merge_write<F>(value), then MergeWrite::with.
RECURSIVE RuntimeAccumulated(_, _)
RuntimeAccumulated(chain, k) ==
    LET f == decl.fields[chain[k].f] IN
    IF k = 1 THEN Register_merge_write(decl.size, f, chain[k].value)
    ELSE MergeWrite_with(decl.size, RuntimeAccumulated(chain, k - 1), f,
                         chain[k].value)

\* _combined_mask of either merge write after the first k fields.
RECURSIVE CombinedMask(_, _)
CombinedMask(chain, k) ==
    IF k = 1 THEN decl.fields[chain[k].f].mask
    ELSE BitOr(CombinedMask(chain, k - 1), decl.fields[chain[k].f].mask)

\* _accumulated_value of the constant-value merge write after the first k
\* fields: Register::merge_write<F, value>(), then
\* MergeWrite_tmpl::propagated.
RECURSIVE ConstantAccumulated(_, _)
ConstantAccumulated(chain, k) ==
    LET f == decl.fields[chain[k].f] IN
    IF k = 1
    THEN MergeWrite_tmpl_accumulated_value(decl.size, f.mask, f.offset,
                                           chain[k].value)
    ELSE MergeWrite_tmpl_accumulated_value(
             decl.size, CombinedMask(chain, k), 0,
             MergeWrite_tmpl_propagated(
                 decl.size, ConstantAccumulated(chain, k - 1), f,
                 chain[k].value))

\* Every value of the chain fits its field.
InRange(chain) ==
    \A k \in 1 .. Len(chain) :
        Fits(chain[k].value, decl.fields[chain[k].f].width)

\* C23: on the same register, the same fields and the same values that fit
\* their fields, the constant-value merge write and the runtime merge write
\* carry the same accumulated value and combined mask after every step, and
\* done() stores once and leaves the same register from the same content;
\* a with<F, value>() with a value that fits is accepted, as with<F>(value)
\* is.
C23_ConstantMatchesRuntime ==
    /\ (last.op = "with_constant" /\ Fits(last.value, LastField.width))
       => ~last.rejected
    /\ (mw.st \in {"building", "committed"} /\ InRange(mw.chain)) =>
        LET n == decl.size
            k == Len(mw.chain)
            acc == accumulated_value(n, mw)
        IN  /\ mw.mask = CombinedMask(mw.chain, k)
            /\ mw.kind = "MergeWrite" => acc = ConstantAccumulated(mw.chain, k)
            /\ mw.kind = "MergeWrite_tmpl"
                   => acc = RuntimeAccumulated(mw.chain, k)
            /\ (mw.st = "committed" /\ last.op = "done") =>
                   /\ last.stores = 1
                   /\ mw.kind = "MergeWrite" =>
                          mem = MergeWrite_tmpl_done(
                                    n, last.pre_mem, CombinedMask(mw.chain, k),
                                    ConstantAccumulated(mw.chain, k))
                   /\ mw.kind = "MergeWrite_tmpl" =>
                          mem = MergeWrite_done(
                                    n, last.pre_mem, CombinedMask(mw.chain, k),
                                    RuntimeAccumulated(mw.chain, k))

\* merge_write<A, 3>().with<B, 5>() on a 16-bit register: with is rejected
\* although 5 fits B, and the merge write still holds A only; the runtime
\* merge_write<A>(3).with<B>(5) is never rejected.
C23_Witness ==
    /\ mw.st = "building"
    /\ mw.kind = "MergeWrite_tmpl"
    /\ decl.size = 16
    /\ mw.chain = << [f |-> "A", value |-> ToBits(3)] >>
    /\ last.op = "with_constant"
    /\ last.f = "B"
    /\ last.value = ToBits(5)
    /\ Fits(last.value, LastField.width)
    /\ last.rejected

----------------------------------------------------------------------------
\* The write of context c is a whole-register write: its field is the whole
\* register, or its policy is write_only.
WholeRegisterWrite(c) ==
    LET f == decl.fields[ctx[c].f] IN
    \/ f.width = decl.size /\ f.offset = 0
    \/ f.policy = "write_only"

\* C24: a whole-register write is one store and no load.  When two contexts
\* have each made one, in either order, the log holds their two stores and
\* nothing else, and the register is the word one of them wrote: the value
\* at the place of its field, with 0 in every other bit.
C24_TrivialWriteOneStore ==
    /\ \A c \in Contexts :
           (ctx[c].pc # "idle" /\ WholeRegisterWrite(c)) =>
               /\ ctx[c].pc = "done"
               /\ AccessesOf(c) = << Access(c, "store", "mem") >>
    /\ (AllDone /\ \A c \in Contexts : WholeRegisterWrite(c)) =>
           /\ Len(wlog) = 2
           /\ \E c \in Contexts :
                  /\ wlog[2].c = c
                  /\ mem = Placed(ctx[c].value, decl.fields[ctx[c].f])

\* Two contexts have written 3 and 5 to a field that is a whole 32-bit
\* register; the register is 3, the value of the second to store.
C24_Witness ==
    /\ AllDone
    /\ decl.size = 32
    /\ decl.fields["A"].width = 32
    /\ decl.fields["A"].policy = "read_write"
    /\ ctx["c1"].f = "A" /\ ctx["c1"].kind = "write"
    /\ ctx["c1"].value = ToBits(3)
    /\ ctx["c2"].f = "A" /\ ctx["c2"].kind = "write_constant"
    /\ ctx["c2"].value = ToBits(5)
    /\ wlog = << Access("c2", "store", "mem"), Access("c1", "store", "mem") >>
    /\ mem = ToBits(3)

----------------------------------------------------------------------------
\* The accepted packed registers of the pack of decl whose byte range
\* [bit_offset / 8, bit_offset / 8 + byte size) shares no byte offset with
\* the range of decl.
DisjointInPack ==
    {d \in PackedRegisterDeclarations :
        /\ d.address = decl.address
        /\ d.size_in_bytes = decl.size_in_bytes
        /\ PackedRegisterAccepted(d.address, d.size_in_bytes, d.size,
                                  d.bit_offset)
        /\ \/ d.bit_offset \div 8 + d.size \div 8 <= decl.bit_offset \div 8
           \/ decl.bit_offset \div 8 + decl.size \div 8 <= d.bit_offset \div 8}

\* C25: the memory an accepted PackedRegister reaches through the memory
\* device of its pack is its byte size of bytes at
\* pack_base + bit_offset / 8, the base_address it has from Register; no
\* byte of it is reached by another register of the pack whose byte range
\* does not overlap its own.
C25_PackedRegisterLocation ==
    (decl.kind = "PackedRegister" /\ last.op = "mem_device") =>
        LET base_address == decl.address + decl.bit_offset \div 8 IN
        /\ ~last.rejected
        /\ last.value = base_address .. (base_address + decl.size \div 8 - 1)
        /\ \A d \in DisjointInPack :
               PackedRegister_mem_device(d) \cap last.value = {}

\* The 16-bit register at bit offset 16 of a pack of 8 bytes at address 8
\* reaches the bytes 10 and 11; the pack has other registers beside it.
C25_Witness ==
    /\ decl.kind = "PackedRegister"
    /\ last.op = "mem_device"
    /\ decl.size = 16
    /\ decl.address = 8
    /\ decl.size_in_bytes = 8
    /\ decl.bit_offset = 16
    /\ last.value = {10, 11}
    /\ Cardinality(DisjointInPack) > 4

----------------------------------------------------------------------------
\* C26 as stated: on a register with shadow value, after a field operation
\* that stored the register, the shadow value is the value stored.
C26_AsStated ==
    (/\ decl.use_shadow
     /\ last.op \in {"write", "write_constant", "set", "clear", "toggle"}
     /\ last.stores = 1)
        => shadow_value = mem

\* On a register with shadow value, A (4 bits) was set and then B, which
\* shares no bit with A, was written: the register came to hold 1111 in A,
\* the shadow value did not, and after the write A is no longer 1111.
C26_Witness ==
    /\ decl.use_shadow
    /\ nops = 2
    /\ last.op = "write"
    /\ last.f = "B"
    /\ decl.fields["A"].width = 4
    /\ FieldBits(decl.fields["A"]) \cap FieldBits(decl.fields["B"]) = {}
    /\ FieldBits(decl.fields["A"]) \subseteq last.pre_mem
    /\ ~(FieldBits(decl.fields["A"]) \subseteq last.pre_shadow)
    /\ ~(FieldBits(decl.fields["A"]) \subseteq mem)
    /\ mem = shadow_value

----------------------------------------------------------------------------
\* C27 as stated: the register a committed merge write has stored to is the
\* register merge_write was called on.
C27_AsStated == mw.st = "committed" => mw.on = mw.reg

\* merge_write was called on S with a field of R, and done() has stored to
\* the memory of R.
C27_Witness ==
    /\ mw.st = "committed"
    /\ mw.on = "S"
    /\ mw.reg = "R"
    /\ mw.stores = 1
    /\ mem # mw.pre_mem

----------------------------------------------------------------------------
\* C28 as stated: merge_write and with are rejected for a read_only field,
\* and a committed merge write has changed no bit of such a field.
C28_AsStated ==
    /\ (/\ last.op \in {"merge_write", "merge_write_constant", "with",
                        "with_constant"}
        /\ LastField.policy = "read_only")
       => last.rejected
    /\ mw.st = "committed" =>
           \A name \in FieldNames :
               decl.fields[name].policy = "read_only" =>
                   Inside(mem, decl.fields[name])
                       = Inside(mw.pre_mem, decl.fields[name])

\* A merge write that names the read_only field A, and no other field, was
\* committed, and the bits of A in the register have changed.
C28_Witness ==
    /\ mw.st = "committed"
    /\ decl.fields["A"].policy = "read_only"
    /\ \A k \in 1 .. Len(mw.chain) : mw.chain[k].f = "A"
    /\ Inside(mem, decl.fields["A"]) # Inside(mw.pre_mem, decl.fields["A"])
    /\ Outside(mem, decl.fields["A"]) = Outside(mw.pre_mem, decl.fields["A"])

----------------------------------------------------------------------------
\* C29: while a merge write of either class is being built, after
\* merge_write and after each with, its accumulated value has no bit
\* outside its combined mask, its combined mask is the OR of the masks of
\* the fields named so far, and the register has been neither loaded nor
\* stored.  The merge write is one that merge_write has started, and the
\* state that follows the cast std::move of a named accumulator alone is
\* not counted.
C29_BuildingInvariant ==
    (mw.st = "building" /\ mw.made = "merge_write" /\ last.op # "move") =>
        /\ accumulated_value(decl.size, mw) \ mw.mask = {}
        /\ mw.mask = ChainMask(mw.chain)
        /\ mw.loads = 0
        /\ mw.stores = 0
        /\ last.loads = 0
        /\ last.stores = 0
        /\ mem = mw.pre_mem

\* A named accumulator was committed, moved again and extended with
\* another field: the accumulator that with returned is being built, its
\* value and mask are those of the two fields, and the register has
\* already been stored to.
C29_Witness ==
    /\ mw.st = "building"
    /\ mw.reused = 1
    /\ last.op \in {"with", "with_constant"}
    /\ ~last.rejected
    /\ Len(mw.chain) = 2
    /\ mw.chain[1].f # mw.chain[2].f
    /\ accumulated_value(decl.size, mw) \ mw.mask = {}
    /\ mw.mask = ChainMask(mw.chain)
    /\ mw.stores = 1
    /\ mem # mw.pre_mem

----------------------------------------------------------------------------
\* _accumulated_value of a merge write of the given class after the first k
\* fields of a chain.
AccumulatedOf(kind, chain, k) ==
    IF kind = "MergeWrite_tmpl" THEN ConstantAccumulated(chain, k)
    ELSE RuntimeAccumulated(chain, k)

\* The chain with its last two fields named in the other order.
Swapped(chain) ==
    LET k == Len(chain)
    IN  [i \in 1 .. k |-> IF i = k THEN chain[k - 1]
                          ELSE IF i = k - 1 THEN chain[k]
                          ELSE chain[i]]

Disjoint(f, g) == FieldBits(f) \cap FieldBits(g) = {}

\* C30: whatever the access policies of the fields, when the last two
\* fields of a merge write being built are disjoint, naming them in the
\* other order gives the same accumulated value and the same combined
\* mask; a with on a field leaves the bits accumulated for every field
\* disjoint from it, and every bit outside it, as they were; and the bits
\* of the field named last hold its value only, whether the field, or a
\* field overlapping it, was named before or not.
C30_OrderIndependent ==
    (mw.st = "building" /\ Len(mw.chain) >= 2) =>
        LET n == decl.size
            k == Len(mw.chain)
            acc == accumulated_value(n, mw)
            prev == AccumulatedOf(mw.kind, mw.chain, k - 1)
            fk == decl.fields[mw.chain[k].f]
            fj == decl.fields[mw.chain[k - 1].f]
        IN  /\ Disjoint(fk, fj) =>
                   /\ acc = AccumulatedOf(mw.kind, Swapped(mw.chain), k)
                   /\ mw.mask = CombinedMask(Swapped(mw.chain), k)
            /\ \A name \in FieldNames :
                   Disjoint(decl.fields[name], fk) =>
                       Inside(acc, decl.fields[name])
                           = Inside(prev, decl.fields[name])
            /\ Outside(acc, fk) = Outside(prev, fk)
            /\ Inside(acc, fk) = Placed(mw.chain[k].value, fk)

\* A runtime merge write named a field that cannot be written, a field
\* disjoint from it, and the first field again with another value: the
\* first field's bits hold the later value, the second field's bits its
\* value.
C30_Witness ==
    /\ mw.st = "building"
    /\ mw.kind = "MergeWrite"
    /\ Len(mw.chain) = 3
    /\ mw.chain[1].f = mw.chain[3].f
    /\ mw.chain[1].f # mw.chain[2].f
    /\ decl.fields[mw.chain[1].f].policy = "read_only"
    /\ Disjoint(decl.fields[mw.chain[1].f], decl.fields[mw.chain[2].f])
    /\ Placed(mw.chain[1].value, decl.fields[mw.chain[1].f])
           \ Placed(mw.chain[3].value, decl.fields[mw.chain[3].f]) # {}
    /\ Inside(mw.value, decl.fields[mw.chain[3].f])
           = Placed(mw.chain[3].value, decl.fields[mw.chain[3].f])
    /\ Inside(mw.value, decl.fields[mw.chain[2].f])
           = Placed(mw.chain[2].value, decl.fields[mw.chain[2].f])
    /\ Inside(mw.value, decl.fields[mw.chain[2].f]) # {}

====
